---- MODULE Spec2Model ----
(***************************************************************************)
(* Model of the extraction pipeline of ebook-image-extractor:              *)
(*   src/src/base_extractor.py   BaseExtractor (filter chain, save_image,  *)
(*                               batch driver, thread-local dedup state)   *)
(*   src/src/epub_extractor.py   EPUBImageExtractor.extract_images and its *)
(*                               extract_from_directory override           *)
(*   src/src/mobi_extractor.py   MobiImageExtractor.__init__ and           *)
(*                               extract_images                            *)
(*   src/src/hash_cache.py       HashCache                                 *)
(*                                                                         *)
(* An image payload is abstracted to what the pipeline reads from it: its  *)
(* identity (which decides its SHA-256), its length, and the width and     *)
(* height parse_image_metrics finds in it.                                 *)
(***************************************************************************)
EXTENDS Integers, Sequences, FiniteSets, TLC

\* ---------------------------------------------------------------- bounds
\* number of ebook files in one batch / one series of direct calls
MaxBooks == 2
\* number of images one book holds at most
MaxImages == 2

\* ------------------------------------------------------ program constants
DEFAULT_MIN_IMAGE_SIZE == 1024

\* BaseExtractor.DEFAULT_IGNORED_HASHES (three fixed digests, abbreviated)
DEFAULT_IGNORED_HASHES ==
    {<<"sha256", "1fcf4c60">>, <<"sha256", "933f630f">>, <<"sha256", "ff1e53b8">>}

\* ----------------------------------------------------------------- inputs
\* Payloads met by the pipeline: an ordinary page and a tiny, very wide icon.
Payloads ==
    { [id |-> "normal", size_bytes |-> 2000, width |-> 300, height |-> 300],
      [id |-> "tiny",   size_bytes |-> 500,  width |-> 50,  height |-> 10] }

\* hashlib.sha256(data).hexdigest(): determined by the bytes, distinct for
\* distinct payloads.
hash_bytes_sha256(data) == <<"sha256", data.id>>

\* parse_image_metrics(data): size, width and height found in the payload.
parse_image_metrics(data) ==
    [size_bytes |-> data.size_bytes, width |-> data.width, height |-> data.height]

\* len(data)
len(data) == data.size_bytes


\* ---------------------------------------------------------- ExtractionStats
ExtractionStats ==
    [saved |-> 0, ignored |-> 0, missing |-> 0, duplicates |-> 0,
     filtered_by_size |-> 0, filtered_by_dimensions |-> 0,
     filtered_by_aspect_ratio |-> 0]

StatFields ==
    {"saved", "ignored", "missing", "duplicates", "filtered_by_size",
     "filtered_by_dimensions", "filtered_by_aspect_ratio"}

Reasons ==
    {"too_small", "too_narrow", "too_short", "extreme_aspect_ratio",
     "duplicate_cache", "ignored_hash", "duplicate"}

\* ------------------------------------------------------------ constructors
\* BaseExtractor.__init__: the attributes the pipeline reads.  min_height is
\* kept with its Python type: min_height_is_int is FALSE when the attribute
\* holds an object that is no number.  max_aspect_ratio is in tenths.
BaseExtractor__init__(ignored, min_image_size, min_width, min_height, min_height_is_int, max_aspect_ratio, enable_deduplication, archive_format, has_cache, parallelism) ==
    [ignored_hashes |-> IF ignored = {} THEN DEFAULT_IGNORED_HASHES ELSE ignored,
     min_image_size |-> min_image_size,
     min_width |-> min_width,
     min_height |-> min_height,
     min_height_is_int |-> min_height_is_int,
     max_aspect_ratio |-> max_aspect_ratio,
     enable_deduplication |-> enable_deduplication,
     archive_format |-> archive_format,
     has_cache |-> has_cache,
     parallelism |-> IF parallelism > 1 THEN parallelism ELSE 1]

\* EPUBImageExtractor.__init__ forwards every argument by keyword.
EPUBImageExtractor__init__(ignored, min_image_size, min_width, min_height, max_aspect_ratio, enable_deduplication, archive_format, has_cache, parallelism) ==
    [cls |-> "epub"] @@
    BaseExtractor__init__(ignored, min_image_size, min_width, min_height, TRUE,
                          max_aspect_ratio, enable_deduplication,
                          archive_format, has_cache, parallelism)

\* MobiImageExtractor.__init__ calls
\*   super().__init__(ignored_hashes, min_image_size, enable_deduplication, logger)
\* positionally, so the third value lands in min_width (True is 1, False 0)
\* and the fourth, the logger (None or a Logger), in min_height; every other
\* attribute keeps BaseExtractor's default.
MobiImageExtractor__init__(ignored, min_image_size, enable_deduplication) ==
    [cls |-> "mobi"] @@
    BaseExtractor__init__(ignored, min_image_size,
                          IF enable_deduplication THEN 1 ELSE 0,
                          0, FALSE, 0, TRUE, FALSE, FALSE, 1)

\* ------------------------------------------------------- should_skip_image
Decision(raised, skip, reason) ==
    [raised |-> raised, should_skip |-> skip, reason |-> reason]

\* metrics.aspect_ratio > self.max_aspect_ratio, with the ceiling in tenths;
\* aspect_ratio is 0.0 when height <= 0.
AspectRatioPositive(metrics) == metrics.height > 0 /\ metrics.width > 0
AspectRatioAbove(metrics, ceiling10) ==
    metrics.height > 0 /\ 10 * metrics.width > ceiling10 * metrics.height

\* A variant with the two hash checks in the other order.
should_skip_image_ignore_first(ex, data, cache, ignored, extracted) ==
    LET metrics == parse_image_metrics(data)
        img_hash == hash_bytes_sha256(data)
    IN  IF ex.min_image_size > 0 /\ len(data) < ex.min_image_size
          THEN Decision(FALSE, TRUE, "too_small")
        ELSE IF ex.min_width > 0 /\ metrics.width > 0 /\ metrics.width < ex.min_width
          THEN Decision(FALSE, TRUE, "too_narrow")
        ELSE IF ~ex.min_height_is_int
          THEN Decision(TRUE, FALSE, "TypeError")
        ELSE IF ex.min_height > 0 /\ metrics.height > 0 /\ metrics.height < ex.min_height
          THEN Decision(FALSE, TRUE, "too_short")
        ELSE IF ex.max_aspect_ratio > 0 /\ AspectRatioPositive(metrics)
                /\ AspectRatioAbove(metrics, ex.max_aspect_ratio)
          THEN Decision(FALSE, TRUE, "extreme_aspect_ratio")
        ELSE IF img_hash \in ignored
          THEN Decision(FALSE, TRUE, "ignored_hash")
        ELSE IF ex.has_cache /\ img_hash \in cache
          THEN Decision(FALSE, TRUE, "duplicate_cache")
        ELSE IF ex.enable_deduplication /\ img_hash \in extracted
          THEN Decision(FALSE, TRUE, "duplicate")
        ELSE Decision(FALSE, FALSE, "")

\* BaseExtractor.should_skip_image(data, img_hash, metrics).  `cache` is
\* HashCache._hashes, `ignored` self.ignored_hashes, `extracted` the calling
\* thread's extracted_hashes.  Comparing a min_height that is no number with
\* 0 raises TypeError.
should_skip_image(ex, data, cache, ignored, extracted) ==
    LET metrics == parse_image_metrics(data)
        img_hash == hash_bytes_sha256(data)
    IN  IF ex.min_image_size > 0 /\ len(data) < ex.min_image_size
          THEN Decision(FALSE, TRUE, "too_small")
        ELSE IF ex.min_width > 0 /\ metrics.width > 0 /\ metrics.width < ex.min_width
          THEN Decision(FALSE, TRUE, "too_narrow")
        ELSE IF ~ex.min_height_is_int
          THEN Decision(TRUE, FALSE, "TypeError")
        ELSE IF ex.min_height > 0 /\ metrics.height > 0 /\ metrics.height < ex.min_height
          THEN Decision(FALSE, TRUE, "too_short")
        ELSE IF ex.max_aspect_ratio > 0 /\ AspectRatioPositive(metrics)
                /\ AspectRatioAbove(metrics, ex.max_aspect_ratio)
          THEN Decision(FALSE, TRUE, "extreme_aspect_ratio")
        ELSE IF ex.has_cache /\ img_hash \in cache
          THEN Decision(FALSE, TRUE, "duplicate_cache")
        ELSE IF img_hash \in ignored
          THEN Decision(FALSE, TRUE, "ignored_hash")
        ELSE IF ex.enable_deduplication /\ img_hash \in extracted
          THEN Decision(FALSE, TRUE, "duplicate")
        ELSE Decision(FALSE, FALSE, "")

\* ------------------------------------------------------- counting a decision
Bump(stats, field) == [stats EXCEPT ![field] = @ + 1]

\* EPUBImageExtractor.extract_images: the if/elif chain on `reason`, the same
\* in the dry-run loop and in the extraction loop.
CountEpub(stats, reason) ==
    IF reason = "ignored_hash" THEN Bump(stats, "ignored")
    ELSE IF reason \in {"duplicate", "duplicate_cache"} THEN Bump(stats, "duplicates")
    ELSE IF reason = "too_small" THEN Bump(stats, "filtered_by_size")
    ELSE IF reason \in {"too_narrow", "too_short"}
      THEN Bump(stats, "filtered_by_dimensions")
    ELSE IF reason = "extreme_aspect_ratio"
      THEN Bump(stats, "filtered_by_aspect_ratio")
    ELSE stats

\* MobiImageExtractor.extract_images: its chain knows three reasons.
CountMobi(stats, reason) ==
    IF reason = "ignored_hash" THEN Bump(stats, "ignored")
    ELSE IF reason = "duplicate" THEN Bump(stats, "duplicates")
    ELSE IF reason = "too_small" THEN Bump(stats, "filtered_by_size")
    ELSE stats

CountRejection(ex, stats, reason) ==
    IF ex.cls = "epub" THEN CountEpub(stats, reason) ELSE CountMobi(stats, reason)

\* ------------------------------------------------------------------ state
VARIABLES
    ex,             \* the extractor's attributes (fixed after construction)
    call,           \* entry point, dry_run flag, number of files, and whether
                    \* the output directories exist from an earlier run
    ignored_hashes, \* self.ignored_hashes
    cache_hashes,   \* HashCache._hashes, the cache's in-memory set
    cache_file,     \* the hashes in the cache file on disk
    cache_saves,    \* number of HashCache.save() calls so far
    fs,             \* output directory of each file
    next_file,      \* next file of the batch to be started
    book,           \* per file: "pending", "running", "completed", "failed"
    th,             \* per thread: the frame of extract_images it runs
    extracted,      \* per thread: _thread_state.extracted_hashes
    results,        \* the files with an entry results[file_path] = stats
    outcome,        \* of the batch call: "running", "returned", "raised"
    sk,             \* one should_skip_image call: its arguments and result
    fn              \* one call of a decoding function: its arguments and result

vars ==
    <<ex, call, ignored_hashes, cache_hashes, cache_file, cache_saves, fs,
      next_file, book, th, extracted, results, outcome, sk, fn>>

pipeline_vars ==
    <<ex, call, ignored_hashes, cache_hashes, cache_file, cache_saves, fs,
      next_file, book, th, extracted, results, outcome>>

\* thread 0 is the caller's thread, the others are the pool's workers
PoolSizes == {1, 2}
Threads == {0} \cup UNION {1..p : p \in PoolSizes}
Files == 1..MaxBooks

BATCH_BASE == "BaseExtractor.extract_from_directory"
BATCH_EPUB == "EPUBImageExtractor.extract_from_directory"
DIRECT == "extract_images"

Parallel == call.entry = BATCH_BASE /\ ex.parallelism > 1

\* The threads that run _extract_single_file / extract_images: the caller's
\* thread, or the pool's workers.  Workers are numbered in the order in which
\* they take their first file, so worker t takes none of the first t - 1.
Runs(t) ==
    IF Parallel
      THEN t \in 1..ex.parallelism /\ t <= next_file
      ELSE t = 0

\* the frame's `img_data` local while no image is being handled
NoData == [id |-> "none", size_bytes |-> 0, width |-> 0, height |-> 0]

IdleFrame ==
    [pc |-> "idle", file |-> 0, pos |-> 0, stats |-> ExtractionStats,
     missing_images |-> {}, data |-> NoData,
     dec |-> Decision(FALSE, FALSE, "")]

NoDir == [exists |-> FALSE, old |-> FALSE, files |-> {}]
OldDir == [exists |-> TRUE, old |-> TRUE, files |-> {}]

\* ------------------------------------------------------------------- Init
\* Constructor arguments tried: the defaults, and each option alone.
PlainArgs ==
    [ignored |-> {}, min_image_size |-> 0, min_width |-> 0, min_height |-> 0,
     max_aspect_ratio |-> 0, enable_deduplication |-> TRUE,
     archive_format |-> FALSE]

EpubArgs ==
    { PlainArgs,
      [PlainArgs EXCEPT !.min_image_size = DEFAULT_MIN_IMAGE_SIZE],
      [PlainArgs EXCEPT !.min_width = 100],
      [PlainArgs EXCEPT !.min_height = 100],
      [PlainArgs EXCEPT !.max_aspect_ratio = 40],
      [PlainArgs EXCEPT !.enable_deduplication = FALSE],
      [PlainArgs EXCEPT !.ignored = {<<"sha256", "normal">>}],
      [PlainArgs EXCEPT !.archive_format = TRUE] }

MobiArgs ==
    { PlainArgs,
      [PlainArgs EXCEPT !.min_image_size = DEFAULT_MIN_IMAGE_SIZE],
      [PlainArgs EXCEPT !.enable_deduplication = FALSE],
      [PlainArgs EXCEPT !.ignored = {<<"sha256", "normal">>}] }

\* The cache is tried with the default filters and with deduplication off,
\* the pool with the default filters, with and without a cache.
CacheArgs == {PlainArgs, [PlainArgs EXCEPT !.enable_deduplication = FALSE]}

EpubExtractors ==
    { EPUBImageExtractor__init__(a.ignored, a.min_image_size, a.min_width,
                                 a.min_height, a.max_aspect_ratio,
                                 a.enable_deduplication, a.archive_format,
                                 FALSE, 1) : a \in EpubArgs }
    \cup
    { EPUBImageExtractor__init__(a.ignored, a.min_image_size, a.min_width,
                                 a.min_height, a.max_aspect_ratio,
                                 a.enable_deduplication, a.archive_format,
                                 TRUE, 1) : a \in CacheArgs }
    \cup
    { EPUBImageExtractor__init__(a.ignored, a.min_image_size, a.min_width,
                                 a.min_height, a.max_aspect_ratio,
                                 a.enable_deduplication, a.archive_format,
                                 c, p) :
        a \in {PlainArgs}, c \in BOOLEAN, p \in PoolSizes \ {1} }

\* min_width and min_height are plain public attributes: a caller that wants
\* the dimension floors on a MOBI extractor, whose constructor does not take
\* them, assigns them after construction.
SetDimensionFloors(e, min_width, min_height) ==
    [e EXCEPT !.min_width = min_width, !.min_height = min_height,
              !.min_height_is_int = TRUE]

MobiExtractors ==
    { MobiImageExtractor__init__(a.ignored, a.min_image_size,
                                 a.enable_deduplication) : a \in MobiArgs }
    \cup
    { SetDimensionFloors(
          MobiImageExtractor__init__(PlainArgs.ignored, PlainArgs.min_image_size,
                                     PlainArgs.enable_deduplication),
          100, 0) }

Entries(e) ==
    IF e.cls = "epub"
      THEN IF e.parallelism > 1 THEN {BATCH_BASE}
           ELSE {BATCH_BASE, BATCH_EPUB, DIRECT}
      ELSE {BATCH_BASE, DIRECT}

\* HashCache.load(): the in-memory set starts as the file's content.
HashCache_load(file) == file

PipelineInit ==
    /\ ex \in EpubExtractors \cup MobiExtractors
    /\ \E e \in Entries(ex), d \in BOOLEAN, o \in BOOLEAN :
          /\ e = BATCH_BASE /\ ex.parallelism > 1 => ~o
          /\ call = [entry |-> e, dry_run |-> d, n_files |-> MaxBooks,
                     old_output |-> o]
    /\ ignored_hashes = ex.ignored_hashes
    /\ cache_file \in (IF ex.has_cache THEN {{}, {<<"sha256", "normal">>}} ELSE {{}})
    /\ cache_hashes = HashCache_load(cache_file)
    /\ cache_saves = 0
    /\ fs = [f \in Files |-> IF call.old_output THEN OldDir ELSE NoDir]
    /\ next_file = 1
    /\ book = [f \in Files |-> "pending"]
    /\ th = [t \in Threads |-> IdleFrame]
    /\ extracted = [t \in Threads |-> {}]
    /\ results = {}
    /\ outcome = "running"

NoSkipCall == [used |-> FALSE]
NoCall == [op |-> "none"]

Init == PipelineInit /\ sk = NoSkipCall /\ fn = NoCall

\* ---------------------------------------------------------------- helpers
\* A variant that keeps the previous book's hashes.
reset_extraction_state_keep(hashes, t) == hashes

\* BaseExtractor.reset_extraction_state on thread t.
reset_extraction_state(hashes, t) == [hashes EXCEPT ![t] = {}]

\* BaseExtractor.prepare_output_directory(clean=True): rmtree, then makedirs.
prepare_output_directory(dir) == [exists |-> TRUE, old |-> FALSE, files |-> {}]

\* the file save_image writes: its index and its content's hash
ImageFile(index, data) == [index |-> index, hash |-> hash_bytes_sha256(data)]

\* the file save_image leaves when open() succeeds and f.write(data) fails:
\* the name is taken, the content is cut short
TruncatedFile(index, data) == [index |-> index, hash |-> <<"truncated", data.id>>]

\* the name '{index:04}_{classification}{extension}': the index, and the
\* role and extension the payload determines
SameName(f, g) == f.index = g.index /\ f.hash[2] = g.hash[2]

\* no write of the run has been cut short so far: at most one is, in the
\* runs tried, and none in the runs with a pool
NoneTruncated ==
    /\ ~Parallel
    /\ \A f \in Files : \A g \in fs[f].files : g.hash[1] # "truncated"

\* open(output_path, "wb"): a file of that name is replaced
open_wb(files, file) == {g \in files : ~SameName(g, file)} \cup {file}

\* A variant that leaves the in-memory set as loaded.
HashCache_add_deferred(hashes, value) == hashes

\* HashCache.add
HashCache_add(hashes, value) == hashes \cup {value}

\* HashCache.save: the file's content becomes the in-memory set
HashCache_save(hashes) == hashes

\* extract_images raises (InvalidFileError, CorruptedFileError or
\* ExtractionError): the frame is gone, and in a sequential batch the
\* exception leaves extract_from_directory at once.  `where` keeps what the
\* exception says about its origin.
FAILED_OPEN == "failed: container"
FAILED_PREPARE == "failed: output directory"
FAILED_IMAGE == "failed: image"
FAILED_FINALIZE == "failed: finalize"
Failures == {FAILED_OPEN, FAILED_PREPARE, FAILED_IMAGE, FAILED_FINALIZE}

Raised(t, where) ==
    /\ th' = [th EXCEPT ![t] = IdleFrame]
    /\ book' = [book EXCEPT ![th[t].file] = where]
    /\ outcome' = IF call.entry \in {BATCH_BASE, BATCH_EPUB} /\ ~Parallel
                    THEN "raised" ELSE outcome
    /\ UNCHANGED results

\* extract_images returns stats; the driver files them under the path.
Returned(t, stats) ==
    /\ th' = [th EXCEPT ![t] = IdleFrame]
    /\ book' = [book EXCEPT ![th[t].file] = "completed"]
    /\ results' = results \cup {th[t].file}
    /\ UNCHANGED outcome

\* end of one pass of the image loop
NextImage(frame) == [frame EXCEPT !.pos = @ + 1, !.data = NoData]

\* ---------------------------------------------------------------- actions
\* The driver starts the next file on thread t: _extract_single_file (or the
\* loop body of the EPUB override) resets the thread's hashes and calls
\* extract_images; a direct call enters extract_images without a reset.
Start(t) ==
    /\ outcome = "running"
    /\ Runs(t)
    /\ th[t].pc = "idle"
    /\ next_file <= call.n_files
    /\ th' = [th EXCEPT ![t] = [IdleFrame EXCEPT !.pc = "open", !.file = next_file]]
    /\ book' = [book EXCEPT ![next_file] = "running"]
    /\ next_file' = next_file + 1
    /\ extracted' = IF call.entry = DIRECT THEN extracted
                    ELSE reset_extraction_state(extracted, t)
    /\ UNCHANGED <<ex, call, ignored_hashes, cache_hashes, cache_file,
                   cache_saves, fs, results, outcome, sk, fn>>

\* A variant of save_image that leaves the thread's set as it was.
extracted_hashes_add_nothing(hashes, t, value) == hashes

\* self._get_extracted_hashes().add(img_hash) on thread t
extracted_hashes_add(hashes, t, value) == [hashes EXCEPT ![t] = @ \cup {value}]

\* A variant that prepares the output directory in a dry run too.
AfterOpenAlwaysPrepare(dry_run) == "prepare"

\* extract_images after the image list is built: `if dry_run:` runs the
\* counting loop and returns; otherwise prepare_output_directory comes next.
AfterOpen(dry_run) == IF dry_run THEN "images" ELSE "prepare"

\* extract_images up to the image loop: the container is opened and decoded
\* and the image list is built.  A bad container raises.  On the EPUB path
\* the <img> references that resolve to no archive entry start missing_images.
Open(t) ==
    /\ th[t].pc = "open"
    /\ \/ /\ Raised(t, FAILED_OPEN)
          /\ UNCHANGED <<ex, call, ignored_hashes, cache_hashes, cache_file,
                         cache_saves, fs, next_file, extracted, sk, fn>>
       \/ /\ \E unresolved \in (IF ex.cls = "epub" THEN {{}, {<<"ref", 0>>}} ELSE {{}}) :
                th' = [th EXCEPT ![t].pc = AfterOpen(call.dry_run),
                                 ![t].missing_images = unresolved]
          /\ UNCHANGED <<ex, call, ignored_hashes, cache_hashes, cache_file,
                         cache_saves, fs, next_file, book, extracted, results,
                         outcome, sk, fn>>

\* self.prepare_output_directory(output_dir); an OSError becomes
\* OutputDirectoryError and leaves extract_images as ExtractionError, with
\* the directory as it was or already removed.
Prepare(t) ==
    /\ th[t].pc = "prepare"
    /\ \/ /\ fs' = [fs EXCEPT ![th[t].file] = prepare_output_directory(@)]
          /\ th' = [th EXCEPT ![t].pc = "images"]
          /\ UNCHANGED <<book, results, outcome>>
       \/ /\ fs' \in {fs, [fs EXCEPT ![th[t].file] = NoDir]}
          /\ Raised(t, FAILED_PREPARE)
    /\ UNCHANGED <<ex, call, ignored_hashes, cache_hashes, cache_file,
                   cache_saves, next_file, extracted, sk, fn>>

\* One pass of the image loop up to the decision: read the payload, sniff it,
\* hash it, call should_skip_image.  On the EPUB path any exception of the
\* pass is caught (missing += 1 in a dry run, missing_images.append
\* otherwise); on the MOBI path it leaves extract_images as ExtractionError.
Evaluate(t) ==
    /\ th[t].pc = "images"
    /\ th[t].pos < MaxImages
    /\ \E data \in Payloads :
         LET dec == should_skip_image(ex, data, cache_hashes, ignored_hashes,
                                      extracted[t])
             caught == IF call.dry_run
                         THEN [NextImage(th[t]) EXCEPT !.stats = Bump(@, "missing")]
                         ELSE [NextImage(th[t]) EXCEPT
                                 !.missing_images = @ \cup {<<"img", th[t].pos>>}]
         IN  \/ /\ ex.cls = "epub"
                /\ th' = [th EXCEPT ![t] = caught]
                /\ UNCHANGED <<book, results, outcome>>
             \/ /\ dec.raised
                /\ IF ex.cls = "epub"
                     THEN /\ th' = [th EXCEPT ![t] = caught]
                          /\ UNCHANGED <<book, results, outcome>>
                     ELSE Raised(t, FAILED_IMAGE)
             \/ /\ ~dec.raised
                /\ th' = [th EXCEPT ![t].pc = "decided", ![t].data = data,
                                    ![t].dec = dec]
                /\ UNCHANGED <<book, results, outcome>>
    /\ UNCHANGED <<ex, call, ignored_hashes, cache_hashes, cache_file,
                   cache_saves, fs, next_file, extracted, sk, fn>>

\* should_skip is True: count the reason, continue with the next image.
Reject(t) ==
    /\ th[t].pc = "decided"
    /\ th[t].dec.should_skip
    /\ th' = [th EXCEPT ![t] =
                [NextImage(th[t]) EXCEPT
                   !.pc = "images",
                   !.stats = CountRejection(ex, th[t].stats, th[t].dec.reason)]]
    /\ UNCHANGED <<ex, call, ignored_hashes, cache_hashes, cache_file,
                   cache_saves, fs, next_file, book, extracted, results,
                   outcome, sk, fn>>

\* should_skip is False.  A dry run counts the image as saved.  Otherwise
\* save_image writes the file under index stats.saved, adds the hash to the
\* thread's set and to the cache's in-memory set, and saved += 1.  save_image
\* can fail in open(), which leaves no file, or in f.write(), which leaves a
\* truncated file under the name; the exception is caught on the EPUB path
\* and leaves extract_images on the MOBI path.
Accept(t) ==
    /\ th[t].pc = "decided"
    /\ ~th[t].dec.should_skip
    /\ LET f == th[t].file
           h == hash_bytes_sha256(th[t].data)
           counted == [NextImage(th[t]) EXCEPT !.pc = "images",
                                               !.stats = Bump(@, "saved")]
       IN  \/ /\ call.dry_run
              /\ th' = [th EXCEPT ![t] = counted]
              /\ UNCHANGED <<fs, extracted, cache_hashes, book, results, outcome>>
           \/ /\ ~call.dry_run
              /\ fs' = [fs EXCEPT ![f].files =
                          open_wb(@, ImageFile(th[t].stats.saved, th[t].data))]
              /\ extracted' = extracted_hashes_add(extracted, t, h)
              /\ cache_hashes' = IF ex.has_cache THEN HashCache_add(cache_hashes, h)
                                 ELSE cache_hashes
              /\ th' = [th EXCEPT ![t] = counted]
              /\ UNCHANGED <<book, results, outcome>>
           \/ /\ ~call.dry_run
              /\ \/ fs' = fs
                 \/ /\ NoneTruncated
                    /\ fs' = [fs EXCEPT ![f].files =
                                open_wb(@, TruncatedFile(th[t].stats.saved, th[t].data))]
              /\ UNCHANGED <<extracted, cache_hashes>>
              /\ IF ex.cls = "epub"
                   THEN /\ th' = [th EXCEPT ![t] =
                                    [NextImage(th[t]) EXCEPT
                                       !.pc = "images",
                                       !.missing_images = @ \cup {<<"img", th[t].pos>>}]]
                        /\ UNCHANGED <<book, results, outcome>>
                   ELSE Raised(t, FAILED_IMAGE)
    /\ UNCHANGED <<ex, call, ignored_hashes, cache_file, cache_saves,
                   next_file, sk, fn>>

\* The image list is exhausted.  The EPUB extraction sets
\* stats.missing = len(set(missing_images)) and calls finalize_book_output,
\* whose archive export can fail and then leaves extract_images as
\* ExtractionError.  Every other path returns stats.
Finish(t) ==
    /\ th[t].pc = "images"
    /\ LET real_epub == ex.cls = "epub" /\ ~call.dry_run
           stats == IF real_epub
                      THEN [th[t].stats EXCEPT
                              !.missing = Cardinality(th[t].missing_images)]
                      ELSE th[t].stats
       IN  \/ Returned(t, stats)
           \/ /\ real_epub
              /\ ex.archive_format
              /\ Raised(t, FAILED_FINALIZE)
    /\ UNCHANGED <<ex, call, ignored_hashes, cache_hashes, cache_file,
                   cache_saves, fs, next_file, extracted, sk, fn>>

AllStarted == next_file > call.n_files
AllIdle == \A t \in Threads : th[t].pc = "idle"
SomeFailed == \E f \in Files : book[f] \in Failures

\* The batch is over and nothing was raised.  BaseExtractor's driver saves
\* the cache; the EPUB override returns without saving it.  A series of
\* direct calls just ends.
Return ==
    /\ outcome = "running"
    /\ AllStarted /\ AllIdle
    /\ ~(Parallel /\ SomeFailed)
    /\ outcome' = "returned"
    /\ IF call.entry = BATCH_BASE /\ ex.has_cache
         THEN /\ cache_file' = HashCache_save(cache_hashes)
              /\ cache_saves' = cache_saves + 1
         ELSE UNCHANGED <<cache_file, cache_saves>>
    /\ UNCHANGED <<ex, call, ignored_hashes, cache_hashes, fs, next_file,
                   book, th, extracted, results, sk, fn>>

\* Parallel driver: future.result() re-raises a worker's exception; the
\* executor's shutdown has waited for every submitted file.
Reraise ==
    /\ outcome = "running"
    /\ Parallel
    /\ AllStarted /\ AllIdle
    /\ SomeFailed
    /\ outcome' = "raised"
    /\ UNCHANGED <<ex, call, ignored_hashes, cache_hashes, cache_file,
                   cache_saves, fs, next_file, book, th, extracted, results, sk, fn>>

Next ==
    \/ \E t \in Threads : Start(t)
    \/ \E t \in Threads : Open(t)
    \/ \E t \in Threads : Prepare(t)
    \/ \E t \in Threads : Evaluate(t)
    \/ \E t \in Threads : Reject(t)
    \/ \E t \in Threads : Accept(t)
    \/ \E t \in Threads : Finish(t)
    \/ Return
    \/ Reraise

Spec == Init /\ [][Next]_vars

\* =========================================================================
\* should_skip_image on its own: one call with arguments drawn from small sets
\* =========================================================================
SkipPayloads ==
    [id : {"x"}, size_bytes : {500, 2000}, width : {0, 50, 300},
     height : {0, 10, 300}]

SkipExtractors ==
    { [cls |-> c] @@
      BaseExtractor__init__({<<"sha256", "other">>}, s, w, h, n, a, d, FALSE, k, 1) :
        c \in {"epub", "mobi"}, s \in {0, DEFAULT_MIN_IMAGE_SIZE}, w \in {0, 100},
        h \in {0, 100}, n \in BOOLEAN, a \in {0, 40}, d \in BOOLEAN,
        k \in BOOLEAN }

SkipHashSets == {{}, {<<"sha256", "x">>}}

\* The pipeline does not move while should_skip_image is studied.
\* the pipeline at rest: an extractor just constructed, no book started
PipelineAtRest ==
    /\ ex = EPUBImageExtractor__init__({}, 0, 0, 0, 0, TRUE, FALSE, FALSE, 1)
    /\ call = [entry |-> DIRECT, dry_run |-> FALSE, n_files |-> MaxBooks,
               old_output |-> FALSE]
    /\ ignored_hashes = ex.ignored_hashes
    /\ cache_file = {}
    /\ cache_hashes = {}
    /\ cache_saves = 0
    /\ fs = [f \in Files |-> NoDir]
    /\ next_file = 1
    /\ book = [f \in Files |-> "pending"]
    /\ th = [t \in Threads |-> IdleFrame]
    /\ extracted = [t \in Threads |-> {}]
    /\ results = {}
    /\ outcome = "running"

InitSkip == PipelineAtRest /\ sk = NoSkipCall /\ fn = NoCall

\* One call should_skip_image(data, img_hash, metrics) on an extractor with
\* attributes e, cache content c, ignore set i and in-run set x.
CallShouldSkip ==
    /\ ~sk.used
    /\ \E e \in SkipExtractors, data \in SkipPayloads, c \in SkipHashSets,
          i \in SkipHashSets, x \in SkipHashSets :
          sk' = [used |-> TRUE, self |-> e, data |-> data, cache |-> c,
                 ignored |-> i, extracted |-> x,
                 result |-> should_skip_image(e, data, c, i, x)]
    /\ UNCHANGED <<pipeline_vars, fn>>

NextSkip == CallShouldSkip

SpecSkip == InitSkip /\ [][NextSkip]_vars

\* ------------------------------------------------------------------- C1
\* The checks of should_skip_image, each stated on the call's arguments.
SkMetrics == parse_image_metrics(sk.data)
SkHash == hash_bytes_sha256(sk.data)
SkMatches(reason) ==
    CASE reason = "too_small" ->
           sk.self.min_image_size > 0 /\ len(sk.data) < sk.self.min_image_size
      [] reason = "too_narrow" ->
           sk.self.min_width > 0 /\ SkMetrics.width > 0
           /\ SkMetrics.width < sk.self.min_width
      [] reason = "too_short" ->
           sk.self.min_height_is_int /\ sk.self.min_height > 0
           /\ SkMetrics.height > 0 /\ SkMetrics.height < sk.self.min_height
      [] reason = "extreme_aspect_ratio" ->
           sk.self.max_aspect_ratio > 0 /\ SkMetrics.width > 0
           /\ SkMetrics.height > 0
           /\ 10 * SkMetrics.width > sk.self.max_aspect_ratio * SkMetrics.height
      [] reason = "duplicate_cache" -> sk.self.has_cache /\ SkHash \in sk.cache
      [] reason = "ignored_hash" -> SkHash \in sk.ignored
      [] reason = "duplicate" ->
           sk.self.enable_deduplication /\ SkHash \in sk.extracted

\* the fixed order of the checks
CheckOrder ==
    <<"too_small", "too_narrow", "too_short", "extreme_aspect_ratio",
      "duplicate_cache", "ignored_hash", "duplicate">>

\* C1: whenever should_skip_image returns, it skips exactly when some check
\* matches, and the reason it returns is that of the earliest matching check
\* in the order size floor, width floor, height floor, aspect-ratio ceiling,
\* cache, ignore set, in-run duplicates; an image below the size floor is
\* too_small whatever its hash, and too_small is counted under
\* filtered_by_size.
C1_FirstMatchWins ==
    (sk.used /\ ~sk.result.raised) =>
        /\ sk.result.should_skip <=> \E k \in 1..Len(CheckOrder) : SkMatches(CheckOrder[k])
        /\ sk.result.should_skip =>
             \E k \in 1..Len(CheckOrder) :
                /\ sk.result.reason = CheckOrder[k]
                /\ SkMatches(CheckOrder[k])
                /\ \A j \in 1..(k - 1) : ~SkMatches(CheckOrder[j])
        /\ SkMatches("too_small") =>
             /\ sk.result.reason = "too_small"
             /\ CountRejection(sk.self, ExtractionStats, sk.result.reason)
                  = [ExtractionStats EXCEPT !.filtered_by_size = 1]

\* the spec's example: 500 bytes, below the floor, hash in the ignore set
C1_Witness ==
    /\ sk.used
    /\ len(sk.data) = 500
    /\ sk.self.min_image_size = DEFAULT_MIN_IMAGE_SIZE
    /\ SkHash \in sk.ignored
    /\ SkHash \in sk.cache /\ sk.self.has_cache
    /\ sk.result = Decision(FALSE, TRUE, "too_small")

\* =========================================================================
\* The pipeline's claims (under Spec)
\* =========================================================================
Batch == call.entry \in {BATCH_BASE, BATCH_EPUB}

\* the hashes of the images written to a file's output directory
SavedHashes(f) == {file.hash : file \in {g \in fs[f].files : g.hash[1] = "sha256"}}
SavedInRun == UNION {SavedHashes(f) : f \in Files}

\* the output directory as it was before the run
UntouchedDir == IF call.old_output THEN OldDir ELSE NoDir

Deciding(t) == th[t].pc = "decided"
FrameHash(t) == hash_bytes_sha256(th[t].data)

\* ------------------------------------------------------------------- C2
\* C2: in the image loop of extract_images, EPUB and MOBI alike, a rejection
\* with one of the seven reasons adds one to exactly one counter and leaves
\* the other six alone; an image that is not skipped and is handled without
\* error adds one to saved and to no other counter, and, where images are
\* written (not a dry run), its hash is then in the thread's in-run set and,
\* with a cache configured, in the cache's in-memory set.
C2_Handled(t) ==
    /\ Deciding(t)
    /\ th'[t].pc = "images"
    /\ th'[t].missing_images = th[t].missing_images

C2_Step(t) ==
    /\ (C2_Handled(t) /\ th[t].dec.should_skip /\ th[t].dec.reason \in Reasons) =>
          \E c \in StatFields : th'[t].stats = [th[t].stats EXCEPT ![c] = @ + 1]
    /\ (C2_Handled(t) /\ ~th[t].dec.should_skip) =>
          /\ th'[t].stats = [th[t].stats EXCEPT !.saved = @ + 1]
          /\ ~call.dry_run =>
                /\ FrameHash(t) \in extracted'[t]
                /\ ex.has_cache => FrameHash(t) \in cache_hashes'

C2_OneCounterPerDecision == [][\A t \in Threads : C2_Step(t)]_vars

\* ------------------------------------------------------------------- C3
\* C3: without a persistent cache, an image is rejected as "duplicate" only
\* if an identical image was saved earlier in the same book, whatever was
\* saved in the books processed before on the same extractor, by the batch
\* drivers and by direct extract_images calls alike.
C3_DuplicateOnlyWithinBook ==
    ~ex.has_cache =>
        \A t \in Threads :
            (Deciding(t) /\ th[t].dec.reason = "duplicate") =>
                FrameHash(t) \in SavedHashes(th[t].file)

\* ------------------------------------------------------------------- C4
\* C4: when extract_from_directory is over, it has returned, and every book
\* whose extraction did not raise was processed and has its statistics in
\* the results.
C4_BatchSurvivesBookFailure ==
    (Batch /\ outcome # "running") =>
        /\ outcome = "returned"
        /\ \A f \in Files :
              book[f] \in Failures \/ (book[f] = "completed" /\ f \in results)

\* ------------------------------------------------------------------- C5
\* C5: no error met while one image is read, sniffed, filtered or written
\* makes extract_images raise, on the EPUB and on the MOBI path.
C5_ImageFailureNeverAbortsBook ==
    \A f \in Files : book[f] # FAILED_IMAGE

\* ------------------------------------------------------------------- C6
\* C6: with parallelism > 1, at every moment of every interleaving, the
\* in-run set of a thread that is processing a book holds only hashes of
\* images already saved for that book.
C6_InRunSetIsPerBook ==
    Parallel =>
        \A t \in Threads :
            th[t].pc # "idle" => extracted[t] \subseteq SavedHashes(th[t].file)

\* worker 1, which took the first file, is on the second one and accepts an
\* image identical to one it saved for the first
C6_Witness ==
    /\ Parallel /\ ~ex.has_cache /\ ~call.dry_run
    /\ th[1].file = 2
    /\ Deciding(1)
    /\ FrameHash(1) \in SavedHashes(1)
    /\ ~th[1].dec.should_skip

\* ------------------------------------------------------------------- C7
\* C7 as claimed: an image is rejected as "duplicate_cache" only if its hash
\* was among those loaded at the start of the run.
C7_OnlyLoadedHashes ==
    ex.has_cache =>
        \A t \in Threads :
            (Deciding(t) /\ th[t].dec.reason = "duplicate_cache") =>
                FrameHash(t) \in cache_file

\* C7 as amended: the membership check answers from the cache's in-memory
\* set, which until the cache is saved is the hashes loaded at the start of
\* the run plus the hash of every image saved so far in the run; an image
\* whose hash is in it when it is evaluated is rejected, as duplicate_cache
\* unless a size, dimension or aspect-ratio check rejects it first, and no
\* other image is rejected as duplicate_cache.
C7_Known == cache_file \cup SavedInRun

C7_Evaluated(t) ==
    (ex.has_cache /\ th[t].pc = "images" /\ th'[t].pc = "decided") =>
        LET h == hash_bytes_sha256(th'[t].data)
            r == th'[t].dec.reason
        IN  /\ r = "duplicate_cache" => h \in C7_Known
            /\ h \in C7_Known =>
                  /\ th'[t].dec.should_skip
                  /\ r \in {"too_small", "too_narrow", "too_short",
                            "extreme_aspect_ratio", "duplicate_cache"}

C7_InMemorySetAnswers ==
    /\ []((ex.has_cache /\ cache_saves = 0) => cache_hashes = C7_Known)
    /\ [][\A t \in Threads : C7_Evaluated(t)]_vars

\* an image saved earlier in the run, absent from the loaded cache, is
\* rejected as duplicate_cache
C7_Witness ==
    \E t \in Threads :
        /\ ex.has_cache
        /\ Deciding(t)
        /\ th[t].dec.reason = "duplicate_cache"
        /\ FrameHash(t) \notin cache_file
        /\ FrameHash(t) \in SavedInRun

\* ------------------------------------------------------------------- C8
\* C8: a batch run with a cache configured that has returned has written the
\* cache file exactly once, and the file then holds the hash of every image
\* saved during the run.
C8_CacheSavedOnce ==
    /\ cache_saves <= 1
    /\ (Batch /\ ex.has_cache /\ outcome = "returned") =>
          /\ cache_saves = 1
          /\ SavedInRun \subseteq cache_file

\* ------------------------------------------------------------------- C9
\* C9: in a dry run every output directory stays as it was (neither created
\* nor cleaned, no file written), the in-run sets, the cache's in-memory set
\* and the ignore set keep their values, and a book whose dry run completes
\* has its statistics returned.
C9_DryRunWritesNothing ==
    call.dry_run =>
        /\ \A f \in Files : fs[f] = UntouchedDir
        /\ \A t \in Threads : extracted[t] = {}
        /\ cache_hashes = HashCache_load(cache_file)
        /\ ignored_hashes = ex.ignored_hashes
        /\ \A f \in Files : book[f] = "completed" => f \in results

\* a dry run over existing output that has counted an image as saved and
\* returned the first book's statistics
C9_Witness ==
    /\ call.dry_run /\ call.old_output
    /\ 1 \in results
    /\ \E t \in Threads : th[t].stats.saved > 0

\* ------------------------------------------------------------------- C10
\* C10: when a real (not dry) extract_images call has raised after it began
\* to process the book's images, the output that existed before the call is
\* still there, and the directory holds none of the book's images or all of
\* the accepted ones.
C10_NoPartialCommit ==
    \A f \in Files :
        (~call.dry_run /\ book[f] \in {FAILED_IMAGE, FAILED_FINALIZE}) =>
            /\ call.old_output => fs[f].old
            /\ fs[f].files = {} \/ book[f] = FAILED_FINALIZE

\* =========================================================================
\* MobiImageExtractor._get_image_records_in_order on its own
\* =========================================================================
\* highest PDB record number tried, and longest list of references tried
MaxRecord == 5
MaxRefs == 3

SeqRange(q) == {q[k] : k \in 1..Len(q)}
NoRepeat(q) == \A j, k \in 1..Len(q) : q[j] = q[k] => j = k

\* the sequences over S of length at most n in which no value repeats
RECURSIVE SeqsNoRepeat(_, _)
SeqsNoRepeat(S, n) ==
    IF n = 0 THEN {<<>>}
    ELSE LET shorter == SeqsNoRepeat(S, n - 1)
         IN  shorter \cup
             UNION {{Append(q, x) : x \in S \ SeqRange(q)} :
                        q \in {r \in shorter : Len(r) = n - 1}}

\* html_order as _extract_image_order_from_html returns it: record numbers,
\* none repeated
HtmlOrders == SeqsNoRepeat(0..MaxRecord, MaxRefs)

\* sorted(image_map)
RECURSIVE sorted(_)
sorted(S) ==
    IF S = {} THEN <<>>
    ELSE LET least == CHOOSE x \in S : \A y \in S : x <= y
         IN  <<least>> \o sorted(S \ {least})

\* the header's value taken as it is, with nothing inferred
inferred_first_image_index_header(image_map, first_image_index) == first_image_index

\* inferred_first_image_index: the header's value when positive, otherwise
\* the smallest image record number
inferred_first_image_index(image_map, first_image_index) ==
    IF first_image_index <= 0 /\ image_map # {}
      THEN sorted(image_map)[1]
      ELSE first_image_index

\* the strategies tried, in the order the code lists them
strategies(html_order, base) ==
    <<"absolute">> \o
    (IF base > 0
       THEN IF \E k \in 1..Len(html_order) : html_order[k] = 0
              THEN <<"relative0", "relative1">>
              ELSE <<"relative1", "relative0">>
       ELSE <<>>)

candidate(strategy, base, ref_idx) ==
    IF strategy = "absolute" THEN ref_idx
    ELSE IF strategy = "relative0" THEN base + ref_idx
    ELSE base + ref_idx - 1

\* len(local_seen) for one strategy
match_count(image_map, html_order, strategy, base) ==
    Cardinality({candidate(strategy, base, html_order[k]) :
                    k \in 1..Len(html_order)} \cap image_map)

\* the selection loop from position k on, with the best found so far
RECURSIVE select_last_wins(_, _, _, _, _, _)
select_last_wins(image_map, html_order, base, k, best, best_count) ==
    LET list == strategies(html_order, base)
    IN  IF k > Len(list) THEN best
        ELSE LET c == match_count(image_map, html_order, list[k], base)
             IN  IF c >= best_count
                   THEN select_last_wins(image_map, html_order, base, k + 1, list[k], c)
                   ELSE select_last_wins(image_map, html_order, base, k + 1, best,
                                         best_count)

RECURSIVE select(_, _, _, _, _, _)
select(image_map, html_order, base, k, best, best_count) ==
    LET list == strategies(html_order, base)
    IN  IF k > Len(list) THEN best
        ELSE LET c == match_count(image_map, html_order, list[k], base)
             IN  IF c > best_count
                   THEN select(image_map, html_order, base, k + 1, list[k], c)
                   ELSE select(image_map, html_order, base, k + 1, best, best_count)

\* the selection with `>=` in place of `>`
best_strategy_last_wins(image_map, html_order, base) ==
    select_last_wins(image_map, html_order, base, 1, "absolute", -1)

\* best_strategy after the loop: it starts at ("absolute", 0), count -1
best_strategy(image_map, html_order, base) ==
    select(image_map, html_order, base, 1, "absolute", -1)

\* the loop over html_order that emits each first hit
RECURSIVE emit_references(_, _, _, _, _, _)
emit_references(image_map, html_order, strategy, base, k, out) ==
    IF k > Len(html_order) THEN out
    ELSE LET c == candidate(strategy, base, html_order[k])
         IN  IF c \in image_map /\ c \notin SeqRange(out)
               THEN emit_references(image_map, html_order, strategy, base, k + 1,
                                    Append(out, c))
               ELSE emit_references(image_map, html_order, strategy, base, k + 1, out)

\* the closing loop over sorted_image_indices, here without its floor
RECURSIVE append_rest_no_floor(_, _, _, _)
append_rest_no_floor(image_map, base, k, out) ==
    LET list == sorted(image_map)
    IN  IF k > Len(list) THEN out
        ELSE IF list[k] \in SeqRange(out)
          THEN append_rest_no_floor(image_map, base, k + 1, out)
        ELSE append_rest_no_floor(image_map, base, k + 1, Append(out, list[k]))

\* the closing loop over sorted_image_indices
RECURSIVE append_rest(_, _, _, _)
append_rest(image_map, base, k, out) ==
    LET list == sorted(image_map)
    IN  IF k > Len(list) THEN out
        ELSE IF list[k] \in SeqRange(out)
          THEN append_rest(image_map, base, k + 1, out)
        ELSE IF base > 0 /\ list[k] < base
          THEN append_rest(image_map, base, k + 1, out)
        ELSE append_rest(image_map, base, k + 1, Append(out, list[k]))

\* _get_image_records_in_order: the record numbers returned, with the
\* strategy and base the references were mapped through
get_image_records_in_order(image_map, html_order, first_image_index) ==
    LET base == inferred_first_image_index(image_map, first_image_index)
        chosen == IF html_order # <<>>
                    THEN best_strategy(image_map, html_order, base)
                    ELSE "none"
        used == IF chosen = "absolute" THEN 0 ELSE base
        referenced == IF html_order # <<>>
                        THEN emit_references(image_map, html_order, chosen, used,
                                             1, <<>>)
                        ELSE <<>>
    IN  [strategy |-> chosen, base |-> used, referenced |-> referenced,
         image_records |-> append_rest(image_map, base, 1, referenced)]

InitOrder == PipelineAtRest /\ sk = NoSkipCall /\ fn = NoCall

CallGetImageRecordsInOrder ==
    /\ fn.op = "none"
    /\ \E image_map \in SUBSET (0..MaxRecord), html_order \in HtmlOrders,
          first_image_index \in 0..MaxRecord :
          fn' = [op |-> "_get_image_records_in_order", image_map |-> image_map,
                 html_order |-> html_order,
                 first_image_index |-> first_image_index,
                 result |-> get_image_records_in_order(image_map, html_order,
                                                       first_image_index)]
    /\ UNCHANGED <<pipeline_vars, sk>>

NextOrder == CallGetImageRecordsInOrder

SpecOrder == InitOrder /\ [][NextOrder]_vars

\* ------------------------------------------------------------------- C11
OrderCalled == fn.op = "_get_image_records_in_order"
Refs == fn.html_order
RefSet == SeqRange(fn.html_order)
RelativeNames == {"relative0", "relative1"}

\* how many references land in the detected records under a strategy whose
\* relative forms start from `from`
Landing(strategy, from) ==
    Cardinality({k \in 1..Len(Refs) :
                    candidate(strategy, from, Refs[k]) \in fn.image_map})

\* the selection rule, for relative strategies starting from `from` and
\* available when `relative_tried`
SelectionRule(from, relative_tried) ==
    LET chosen == fn.result.strategy
        tried == {"absolute"} \cup (IF relative_tried THEN RelativeNames ELSE {})
    IN  /\ chosen \in tried
        /\ \A k \in 1..Len(Refs) :
              candidate(chosen, fn.result.base, Refs[k]) = candidate(chosen, from, Refs[k])
        /\ \A s \in tried : Landing(chosen, from) >= Landing(s, from)
        /\ chosen = "absolute" <=>
              \A s \in tried : Landing(s, from) <= Landing("absolute", from)
        /\ (chosen # "absolute"
            /\ Landing("relative0", from) = Landing("relative1", from)) =>
              chosen = (IF 0 \in RefSet THEN "relative0" ELSE "relative1")

\* C11 as claimed: for non-empty references the strategy is picked among
\* absolute (r), relative-zero (first_image_index + r) and relative-one
\* (first_image_index + r - 1) by the number of references landing in the
\* detected records, relative ties going to relative-zero when some
\* reference is 0 and to relative-one otherwise, absolute kept unless a
\* relative strategy has a strictly higher count.
C11_SelectsFromHeaderIndex ==
    (OrderCalled /\ Refs # <<>>) => SelectionRule(fn.first_image_index, TRUE)

\* C11 as amended: the relative strategies start from the base, which is
\* first_image_index when it is positive and the smallest detected image
\* record number otherwise, and they are tried only when the base is
\* positive; the rest of the rule is as claimed.
OrderBase == inferred_first_image_index(fn.image_map, fn.first_image_index)

C11_SelectsFromInferredBase ==
    (OrderCalled /\ Refs # <<>>) => SelectionRule(OrderBase, OrderBase > 0)

\* the claim's example, three records lower: detected {2,3,4},
\* first_image_index 2, references [0,1,2]
C11_Witness ==
    /\ OrderCalled
    /\ fn.image_map = {2, 3, 4}
    /\ fn.first_image_index = 2
    /\ fn.html_order = <<0, 1, 2>>
    /\ fn.result.strategy = "relative0"
    /\ fn.result.image_records = <<2, 3, 4>>

\* ------------------------------------------------------------------- C12
OrderOut == fn.result.image_records
OrderCandidate(k) == candidate(fn.result.strategy, fn.result.base, Refs[k])

\* the references that hit a detected record no earlier reference hit
FirstHits ==
    {k \in 1..Len(Refs) :
        /\ OrderCandidate(k) \in fn.image_map
        /\ \A j \in 1..(k - 1) : OrderCandidate(j) # OrderCandidate(k)}

\* C12: the output is the first hits of the references, mapped through the
\* winning strategy, in the references' order, followed by the detected
\* records not yet emitted whose number is >= first_image_index, ascending;
\* no number appears twice, every number is a detected record, and with no
\* references the output is the detected records >= first_image_index,
\* ascending.
C12_OrderComposition ==
    OrderCalled =>
        LET n == Cardinality(FirstHits)
            head == {OrderOut[i] : i \in 1..n}
        IN  /\ Len(OrderOut) >= n
            /\ \A k \in FirstHits :
                  OrderOut[Cardinality({j \in FirstHits : j <= k})] = OrderCandidate(k)
            /\ {OrderOut[i] : i \in (n + 1)..Len(OrderOut)} =
                  {d \in fn.image_map : d >= fn.first_image_index} \ head
            /\ \A i, j \in (n + 1)..Len(OrderOut) : i < j => OrderOut[i] < OrderOut[j]
            /\ NoRepeat(OrderOut)
            /\ SeqRange(OrderOut) \subseteq fn.image_map
            /\ Refs = <<>> => n = 0

\* references of which one misses, records appended after the hits, and a
\* detected record below first_image_index left out
C12_Witness ==
    /\ OrderCalled
    /\ Refs # <<>>
    /\ \E k \in 1..Len(Refs) : OrderCandidate(k) \notin fn.image_map
    /\ Cardinality(FirstHits) >= 2
    /\ OrderOut[1] > OrderOut[2]
    /\ Len(OrderOut) > Cardinality(FirstHits)
    /\ \E d \in fn.image_map : d < fn.first_image_index /\ d \notin SeqRange(OrderOut)

\* =========================================================================
\* MobiImageExtractor._extract_image_order_from_html on its own
\* =========================================================================
\* most <img> tags in one document
MaxTags == 3

\* the digit strings tried after image/cover/thumb, kindle:embed: or recindex=
DigitStrings == {<<1>>, <<0, 1>>, <<2>>}

\* An <img ...> tag, reduced to what the three value patterns read: the form
\* of its src attribute ("file": a path ending in image|cover|thumb, digits,
\* a dot and an extension; "kindle": kindle:embed:digits; "other": any other
\* value; "none": no src) with its digits, and the digits of its recindex
\* attribute (<<>> when it has none).
ImgTags ==
    [src : {"file", "kindle"}, src_digits : DigitStrings,
     recindex : {<<>>, <<1>>, <<0, 2>>}]
    \cup
    [src : {"other", "none"}, src_digits : {<<>>}, recindex : {<<>>, <<1>>, <<0, 2>>}]

RECURSIVE TagSeqs(_)
TagSeqs(n) ==
    IF n = 0 THEN {<<>>}
    ELSE LET shorter == TagSeqs(n - 1)
         IN  shorter \cup
             {Append(q, tag) : q \in {r \in shorter : Len(r) = n - 1},
                               tag \in ImgTags}

\* the group 0*(\d+) captures: the zeros go to 0* as long as a digit is left
RECURSIVE captured_digits(_)
captured_digits(digits) ==
    IF Len(digits) > 1 /\ digits[1] = 0 THEN captured_digits(Tail(digits))
    ELSE digits

\* int(match.group(1))
RECURSIVE int(_)
int(digits) ==
    IF digits = <<>> THEN 0
    ELSE 10 * int(SubSeq(digits, 1, Len(digits) - 1)) + digits[Len(digits)]

\* value_patterns with the recindex pattern first
value_patterns_recindex_first == <<"recindex", "file", "kindle">>

\* value_patterns, in the order of the list
value_patterns == <<"file", "kindle", "recindex">>

\* re.search(pattern, tag): the digits captured, or <<>> for no match
search(pattern, tag) ==
    IF pattern = "file" /\ tag.src = "file" THEN captured_digits(tag.src_digits)
    ELSE IF pattern = "kindle" /\ tag.src = "kindle" THEN captured_digits(tag.src_digits)
    ELSE IF pattern = "recindex" /\ tag.recindex # <<>> THEN captured_digits(tag.recindex)
    ELSE <<>>

\* the inner loop over value_patterns for one tag: the loop breaks at the
\* first pattern that matches; -1 stands for no pattern matching
RECURSIVE first_match(_, _)
first_match(tag, k) ==
    IF k > Len(value_patterns) THEN -1
    ELSE IF search(value_patterns[k], tag) = <<>> THEN first_match(tag, k + 1)
    ELSE int(search(value_patterns[k], tag))

\* the outer loop over the tags, with image_order (and seen, its values)
RECURSIVE extract_image_order_from_html(_, _, _)
extract_image_order_from_html(tags, k, image_order) ==
    IF k > Len(tags) THEN image_order
    ELSE LET record_idx == first_match(tags[k], 1)
         IN  IF record_idx >= 0 /\ record_idx \notin SeqRange(image_order)
               THEN extract_image_order_from_html(tags, k + 1,
                                                 Append(image_order, record_idx))
               ELSE extract_image_order_from_html(tags, k + 1, image_order)

InitHtml == PipelineAtRest /\ sk = NoSkipCall /\ fn = NoCall

CallExtractImageOrder ==
    /\ fn.op = "none"
    /\ \E tags \in TagSeqs(MaxTags) :
          fn' = [op |-> "_extract_image_order_from_html", tags |-> tags,
                 result |-> extract_image_order_from_html(tags, 1, <<>>)]
    /\ UNCHANGED <<pipeline_vars, sk>>

NextHtml == CallExtractImageOrder

SpecHtml == InitHtml /\ [][NextHtml]_vars

\* ------------------------------------------------------------------- C13
HtmlCalled == fn.op = "_extract_image_order_from_html"

\* the decimal value of a digit string
RECURSIVE DecimalValue(_, _)
DecimalValue(digits, k) ==
    IF k > Len(digits) THEN 0
    ELSE digits[k] * 10 ^ (Len(digits) - k) + DecimalValue(digits, k + 1)

\* the number a tag contributes: that of the first form present, in the
\* priority file suffix, kindle:embed, recindex; -1 when it has none
Contribution(tag) ==
    IF tag.src \in {"file", "kindle"} THEN DecimalValue(tag.src_digits, 1)
    ELSE IF tag.recindex # <<>> THEN DecimalValue(tag.recindex, 1)
    ELSE -1

\* the tags that bring a number no earlier tag brought
FirstOccurrences ==
    {k \in 1..Len(fn.tags) :
        /\ Contribution(fn.tags[k]) >= 0
        /\ \A j \in 1..(k - 1) : Contribution(fn.tags[j]) # Contribution(fn.tags[k])}

\* C13: the list returned holds, in tag order, the number of every tag that
\* brings a number for the first time: no number repeats, each tag
\* contributes through its first matching pattern only (file suffix, then
\* kindle:embed, then recindex), leading zeros do not count, and a tag that
\* matches no pattern contributes nothing.
C13_FirstOccurrenceOrder ==
    HtmlCalled =>
        /\ Len(fn.result) = Cardinality(FirstOccurrences)
        /\ \A k \in FirstOccurrences :
              fn.result[Cardinality({j \in FirstOccurrences : j <= k})]
                  = Contribution(fn.tags[k])
        /\ NoRepeat(fn.result)

\* a file suffix with leading zeros beats the tag's recindex, a tag without
\* a pattern is passed over, and a repeated number is dropped
C13_Witness ==
    /\ HtmlCalled
    /\ Len(fn.tags) = 3
    /\ fn.tags[1] = [src |-> "file", src_digits |-> <<0, 1>>, recindex |-> <<0, 2>>]
    /\ fn.tags[2] = [src |-> "other", src_digits |-> <<>>, recindex |-> <<>>]
    /\ fn.tags[3] = [src |-> "none", src_digits |-> <<>>, recindex |-> <<1>>]
    /\ fn.result = <<1>>

\* =========================================================================
\* MobiImageExtractor._read_pdb_records on its own
\* =========================================================================
\* most entries in the record table
MaxPdbRecords == 3

PDB_HEADER_SIZE == 78
PDB_ENTRY_SIZE == 8
PDB_OFFSET_SIZE == 4

\* A file, reduced to what _read_pdb_records reads: its length, the record
\* count at bytes 76..77 and the offsets stored in the record table.
PdbLengths == {0, 77, 78, 90, 102, 120}
PdbOffsets == {0, 102, 110, 120, 150}

RECURSIVE OffsetTables(_)
OffsetTables(n) ==
    IF n = 0 THEN {<<>>}
    ELSE LET shorter == OffsetTables(n - 1)
         IN  shorter \cup
             {Append(q, o) : q \in {r \in shorter : Len(r) = n - 1},
                             o \in PdbOffsets}

PdbFiles ==
    {[length |-> l, table |-> t] : l \in PdbLengths, t \in OffsetTables(MaxPdbRecords)}

\* struct.unpack(">H", data[76:78])
num_records(data) == Len(data.table)

\* the first loop: the offsets whose four bytes lie inside the buffer
RECURSIVE record_offsets(_, _)
record_offsets(data, i) ==
    IF i >= num_records(data) THEN <<>>
    ELSE LET offset_pos == PDB_HEADER_SIZE + (i * PDB_ENTRY_SIZE)
         IN  IF offset_pos + PDB_OFFSET_SIZE <= data.length
               THEN <<data.table[i + 1]>> \o record_offsets(data, i + 1)
               ELSE record_offsets(data, i + 1)

\* the second loop, over positions i (from 0) of record_offsets
RECURSIVE records_from(_, _, _)
records_from(data, offsets, i) ==
    IF i >= Len(offsets) THEN <<>>
    ELSE LET start == offsets[i + 1]
             end == IF i + 1 < Len(offsets) THEN offsets[i + 2] ELSE data.length
         IN  IF start < end /\ start < data.length
               THEN <<(<<start, end>>)>> \o records_from(data, offsets, i + 1)
               ELSE records_from(data, offsets, i + 1)

read_pdb_records(data) ==
    IF data.length < PDB_HEADER_SIZE THEN <<>>
    ELSE records_from(data, record_offsets(data, 0), 0)

InitPdb == PipelineAtRest /\ sk = NoSkipCall /\ fn = NoCall

CallReadPdbRecords ==
    /\ fn.op = "none"
    /\ \E data \in PdbFiles :
          fn' = [op |-> "_read_pdb_records", data |-> data,
                 result |-> read_pdb_records(data)]
    /\ UNCHANGED <<pipeline_vars, sk>>

NextPdb == CallReadPdbRecords

SpecPdb == InitPdb /\ [][NextPdb]_vars

\* ------------------------------------------------------------------- C14
PdbCalled == fn.op = "_read_pdb_records"
PdbTable == fn.data.table

NonMonotonic == \E i \in 1..(Len(PdbTable) - 1) : PdbTable[i + 1] < PdbTable[i]
OutOfRange == \E i \in 1..Len(PdbTable) : PdbTable[i] > fn.data.length

\* C14: _read_pdb_records returns the empty list for a buffer shorter than
\* 78 bytes and for an offset table that is not monotonic or holds an offset
\* outside the buffer; it returns no partial list for such input.
C14_FailsClosed ==
    (PdbCalled /\ (fn.data.length < PDB_HEADER_SIZE \/ NonMonotonic \/ OutOfRange)) =>
        fn.result = <<>>

\* ------------------------------------------------------------------- C15
\* C15: for a buffer of at least 78 bytes, element i of the list returned is
\* PDB record i: it starts at the i-th offset of the table and ends at the
\* next offset, or at the file length for the last record, and every range
\* returned satisfies 0 <= start < end <= file length.
C15_PositionIsRecordNumber ==
    (PdbCalled /\ fn.data.length >= PDB_HEADER_SIZE) =>
        LET offsets == record_offsets(fn.data, 0)
        IN  \A k \in 1..Len(fn.result) :
                /\ fn.result[k][1] = offsets[k]
                /\ fn.result[k][2] =
                      (IF k < Len(offsets) THEN offsets[k + 1] ELSE fn.data.length)
                /\ 0 <= fn.result[k][1]
                /\ fn.result[k][1] < fn.result[k][2]
                /\ fn.result[k][2] <= fn.data.length

\* =========================================================================
\* MobiImageExtractor._decompress_palmdoc, one step per turn of its loop
\* =========================================================================
\* longest compressed input tried
MaxInput == 4

\* The input bytes tried: a zero, the count of a literal run, a plain
\* letter, the first byte of a back-reference with its low bits clear, a
\* byte that as second byte gives distance 1 and length 3 (and as first
\* byte announces a run of eight), a space-escape, and the two bytes of the
\* back-reference with the largest distance.
PalmDocBytes == {0, 2, 65, 128, 8, 193, 191, 248}

RECURSIVE SeqsUpTo(_, _)
SeqsUpTo(S, n) ==
    IF n = 0 THEN {<<>>}
    ELSE LET shorter == SeqsUpTo(S, n - 1)
         IN  shorter \cup
             {Append(q, b) : q \in {r \in shorter : Len(r) = n - 1}, b \in S}

\* data[i:i + byte]: a slice stops at the end of the data
slice(data, from, count) ==
    SubSeq(data, from + 1, IF from + count <= Len(data) THEN from + count ELSE Len(data))

\* the mask 0x7FF, which is also the largest distance two bytes can carry
MAX_DISTANCE == 2047

\* ((byte << 8) | next_byte) >> 3, without the mask
distance_unmasked(byte, next_byte) == (byte * 256 + next_byte) \div 8

\* ((byte << 8) | next_byte) >> 3 & 0x7FF
distance(byte, next_byte) == ((byte * 256 + next_byte) \div 8) % (MAX_DISTANCE + 1)

\* (next_byte & 0x07) + 3
length(next_byte) == (next_byte % 8) + 3

\* result[-distance] on a bytearray: index -0 is index 0, and an index
\* outside the array raises IndexError
negative_index(result, dist) ==
    IF dist = 0
      THEN (IF result = <<>> THEN [raised |-> TRUE, value |-> 0]
            ELSE [raised |-> FALSE, value |-> result[1]])
      ELSE [raised |-> FALSE, value |-> result[Len(result) - dist + 1]]

\* for _ in range(length): append result[-distance] while len(result) >= distance
RECURSIVE copy(_, _, _)
copy(result, dist, n) ==
    IF n = 0 THEN [raised |-> FALSE, result |-> result]
    ELSE IF Len(result) >= dist
      THEN LET got == negative_index(result, dist)
           IN  IF got.raised THEN [raised |-> TRUE, result |-> result]
               ELSE copy(Append(result, got.value), dist, n - 1)
    ELSE [raised |-> FALSE, result |-> result]

PALMDOC == "_decompress_palmdoc"

InitPalmDoc == PipelineAtRest /\ sk = NoSkipCall /\ fn = NoCall

\* the frame of a call: result = bytearray(), i = 0
PalmDocFrame(data, from, text) ==
    [op |-> PALMDOC, data |-> data, from |-> from, text |-> text, i |-> 0,
     result |-> <<>>, status |-> "running"]

\* _decompress_palmdoc(data) on any byte string
CallDecompress ==
    /\ fn.op = "none"
    /\ \E data \in SeqsUpTo(PalmDocBytes, MaxInput) :
          fn' = PalmDocFrame(data, "bytes", <<>>)
    /\ UNCHANGED <<pipeline_vars, sk>>

\* one turn of `while i < len(data)`
DecompressStep ==
    /\ fn.op = PALMDOC /\ fn.status = "running"
    /\ fn.i < Len(fn.data)
    /\ LET byte == fn.data[fn.i + 1]
           i == fn.i + 1
       IN  IF byte = 0
             THEN fn' = [fn EXCEPT !.i = i, !.result = Append(@, byte)]
           ELSE IF 1 <= byte /\ byte <= 8
             THEN fn' = [fn EXCEPT !.i = i + byte,
                                   !.result = @ \o slice(fn.data, i, byte)]
           ELSE IF byte <= 127
             THEN fn' = [fn EXCEPT !.i = i, !.result = Append(@, byte)]
           ELSE IF byte <= 191
             THEN IF i >= Len(fn.data)
                    THEN fn' = [fn EXCEPT !.i = i, !.status = "returned"]
                    ELSE LET next_byte == fn.data[i + 1]
                             copied == copy(fn.result, distance(byte, next_byte),
                                            length(next_byte))
                         IN  fn' = [fn EXCEPT !.i = i + 1,
                                              !.result = copied.result,
                                              !.status = IF copied.raised
                                                           THEN "raised: IndexError"
                                                           ELSE @]
           ELSE fn' = [fn EXCEPT !.i = i,
                                 !.result = @ \o <<32, byte - 128>>]
    /\ UNCHANGED <<pipeline_vars, sk>>

\* the loop is over: return bytes(result)
DecompressReturn ==
    /\ fn.op = PALMDOC /\ fn.status = "running"
    /\ fn.i >= Len(fn.data)
    /\ fn' = [fn EXCEPT !.status = "returned"]
    /\ UNCHANGED <<pipeline_vars, sk>>

NextPalmDoc == CallDecompress \/ DecompressStep \/ DecompressReturn

SpecPalmDoc == InitPalmDoc /\ [][NextPalmDoc]_vars

\* ------------------------------------------------------------------- C16
\* C16: on every finite input, also one cut inside a literal run or between
\* the two bytes of a back-reference, and one whose back-reference has
\* distance 0 or a distance beyond the output so far, _decompress_palmdoc
\* consumes input at every turn of its loop and never raises.
C16_NeverRaises ==
    fn.op = PALMDOC => fn.status \in {"running", "returned"}

\* =========================================================================
\* _decompress_palmdoc on the output of a PalmDoc encoder
\* =========================================================================
\* longest short text compressed
MaxText == 5

\* a letter, a second letter, a space, and a byte above 0x7F
TextBytes == {65, 66, 32, 233}

MIN_MATCH == 3
MAX_MATCH == MIN_MATCH + 7
MAX_RUN == 8

\* A text that needs every kind of token: a space and a letter, a letter,
\* a stretch of one high byte, and the opening three bytes once more,
\* MAX_DISTANCE bytes after their first occurrence.
Opening == <<32, 65, 66>>
LongText ==
    [k \in 1..(MAX_DISTANCE + Len(Opening)) |->
        IF k <= Len(Opening) THEN Opening[k]
        ELSE IF k <= MAX_DISTANCE THEN 233
        ELSE Opening[k - MAX_DISTANCE]]

Texts == SeqsUpTo(TextBytes, MaxText) \cup {LongText}

\* The reference encoder: at each position the longest repetition of 3 to
\* 10 bytes found at most MAX_DISTANCE bytes back (the nearest one), else a
\* space joined with the letter after it, else the byte itself when it
\* stands for itself, else a counted run of bytes that do not.
Repeats(text, p, d, l) ==
    /\ p + l - 1 <= Len(text)
    /\ \A k \in 0..(l - 1) : text[p + k] = text[p + k - d]

Window(p) == 1..(IF p - 1 <= MAX_DISTANCE THEN p - 1 ELSE MAX_DISTANCE)

MatchLengths(text, p) ==
    {l \in MIN_MATCH..MAX_MATCH : \E d \in Window(p) : Repeats(text, p, d, l)}

Largest(S) == CHOOSE x \in S : \A y \in S : y <= x
Smallest(S) == CHOOSE x \in S : \A y \in S : x <= y

StandsForItself(b) == b = 0 \/ (9 <= b /\ b <= 127)

RunLength(text, p) ==
    Largest({r \in 1..MAX_RUN :
                /\ p + r - 1 <= Len(text)
                /\ \A k \in 0..(r - 1) : ~StandsForItself(text[p + k])})

BackReference(d, l) ==
    LET word == 32768 + d * 8 + (l - MIN_MATCH)
    IN  <<word \div 256, word % 256>>

\* the token the encoder writes at position p, and the bytes it stands for
Token(text, p) ==
    IF MatchLengths(text, p) # {}
      THEN LET l == Largest(MatchLengths(text, p))
               d == Smallest({x \in Window(p) : Repeats(text, p, x, l)})
           IN  [bytes |-> BackReference(d, l), covers |-> l]
    ELSE IF text[p] = 32 /\ p < Len(text) /\ 64 <= text[p + 1] /\ text[p + 1] <= 127
      THEN [bytes |-> <<text[p + 1] + 128>>, covers |-> 2]
    ELSE IF StandsForItself(text[p])
      THEN [bytes |-> <<text[p]>>, covers |-> 1]
    ELSE LET r == RunLength(text, p)
         IN  [bytes |-> <<r>> \o SubSeq(text, p, p + r - 1), covers |-> r]

ENCODER == "encoder"

InitRoundTrip == PipelineAtRest /\ sk = NoSkipCall /\ fn = NoCall

\* a text is handed to the encoder
CallEncoder ==
    /\ fn.op = "none"
    /\ \E text \in Texts : fn' = [op |-> ENCODER, text |-> text, p |-> 1, out |-> <<>>]
    /\ UNCHANGED <<pipeline_vars, sk>>

\* the encoder writes one token
EncodeStep ==
    /\ fn.op = ENCODER
    /\ fn.p <= Len(fn.text)
    /\ LET token == Token(fn.text, fn.p)
       IN  fn' = [fn EXCEPT !.p = @ + token.covers, !.out = @ \o token.bytes]
    /\ UNCHANGED <<pipeline_vars, sk>>

\* _decompress_palmdoc(encoded)
CallDecompressEncoded ==
    /\ fn.op = ENCODER
    /\ fn.p > Len(fn.text)
    /\ fn' = PalmDocFrame(fn.out, ENCODER, fn.text)
    /\ UNCHANGED <<pipeline_vars, sk>>

NextRoundTrip ==
    CallEncoder \/ EncodeStep \/ CallDecompressEncoded \/ DecompressStep \/ DecompressReturn

SpecRoundTrip == InitRoundTrip /\ [][NextRoundTrip]_vars

\* ------------------------------------------------------------------- C17
Decompressed == fn.op = PALMDOC /\ fn.from = ENCODER /\ fn.status # "running"

\* positions of the input at which a token of each kind starts
RunAt(data, k) == 1 <= data[k] /\ data[k] <= 8
BackReferenceAt(data, k, d) ==
    /\ k < Len(data)
    /\ 128 <= data[k] /\ data[k] <= 191
    /\ (data[k] * 256 + data[k + 1] - 32768) \div 8 = d
EscapeAt(data, k) == data[k] >= 192

\* C17: decompressing what the reference encoder made of a text returns
\* that text, byte for byte, and the call returns; the texts tried need
\* literal runs, back-references at distance 1 and at distance 2047, and
\* the space escape.
C17_RoundTrip ==
    Decompressed => fn.status = "returned" /\ fn.result = fn.text

\* The long text has come back whole; its encoding opens with a space
\* escape, holds a literal run of eight and back-references at distance 1,
\* and ends with a back-reference at the largest distance.
C17_Witness ==
    /\ Decompressed /\ fn.status = "returned"
    /\ fn.text = LongText /\ fn.result = LongText
    /\ EscapeAt(fn.data, 1)
    /\ RunAt(fn.data, 3) /\ fn.data[3] = MAX_RUN
    /\ BackReferenceAt(fn.data, 12, 1)
    /\ BackReferenceAt(fn.data, Len(fn.data) - 1, MAX_DISTANCE)

\* =========================================================================
\* EPUBImageExtractor.get_reading_order
\* =========================================================================
\* most entries in an archive listing
MaxEntries == 3
\* most itemrefs in a spine
MaxSpine == 3

\* An archive path, kept as its directory segments and its file name split
\* into stem and extension: OEBPS/ch1.xhtml is
\* [dir |-> <<"OEBPS">>, file |-> <<"ch1", ".xhtml">>].
Path(dir, stem, ext) == [dir |-> dir, file |-> <<stem, ext>>]

CH1 == Path(<<"OEBPS">>, "ch1", ".xhtml")
CH2 == Path(<<"OEBPS">>, "ch2", ".html")
NOTES == Path(<<"OEBPS">>, "notes", ".txt")
INDEX == Path(<<>>, "index", ".html")

\* the entries of the archives tried, in the order of their path strings
\* ("OEBPS/ch1.xhtml" < "OEBPS/ch2.html" < "OEBPS/notes.txt" < "index.html")
DocEntries == <<CH1, CH2, NOTES, INDEX>>

\* zipf.namelist(): listings of at most MaxEntries entries
Listings(entries, n) == SeqsNoRepeat(SeqRange(entries), n)

\* f.endswith((".xhtml", ".html"))
is_html(f) == f.file[2] \in {".xhtml", ".html"}

RECURSIVE keep(_, _)
\* [f for f in all_files if test(f)], for the set of entries passing the test
keep(all_files, passing) ==
    IF all_files = <<>> THEN <<>>
    ELSE IF Head(all_files) \in passing
      THEN <<Head(all_files)>> \o keep(Tail(all_files), passing)
    ELSE keep(Tail(all_files), passing)

html_files(all_files) == keep(all_files, {f \in SeqRange(all_files) : is_html(f)})

\* sorted(html_files): by path string
sorted_paths(files) == keep(DocEntries, SeqRange(files))

\* the package document as read: where it lies, its manifest (id -> href)
\* and the idrefs of its spine; found = FALSE when no package document can
\* be read
Ids == {"i1", "i2"}
Idrefs == Ids \cup {"i9"}
Hrefs ==
    {Path(<<>>, "ch1", ".xhtml"), Path(<<>>, "ch2", ".html"),
     Path(<<>>, "notes", ".txt"), Path(<<"OEBPS">>, "ch1", ".xhtml")}
OpfDirs == {<<>>, <<"OEBPS">>}

NoOpf == [found |-> FALSE, dir |-> <<>>, manifest |-> <<>>, spine |-> <<>>]
Opfs ==
    {NoOpf} \cup
    [found : {TRUE}, dir : OpfDirs, manifest : [Ids -> Hrefs],
     spine : SeqsUpTo(Idrefs, MaxSpine)]

\* f"{opf_dir}/{href}".replace("//", "/"), or href when opf_dir is empty
full_path(opf_dir, href) == [dir |-> opf_dir \o href.dir, file |-> href.file]

RECURSIVE spine_files(_, _, _, _)
\* for itemref in spine.find_all("itemref")
spine_files(opf, all_files, k, ordered_files) ==
    IF k > Len(opf.spine) THEN ordered_files
    ELSE LET idref == opf.spine[k]
         IN  IF idref \in DOMAIN opf.manifest
               THEN LET path == full_path(opf.dir, opf.manifest[idref])
                    IN  IF path \in SeqRange(all_files) /\ is_html(path)
                          THEN spine_files(opf, all_files, k + 1, Append(ordered_files, path))
                          ELSE spine_files(opf, all_files, k + 1, ordered_files)
               ELSE spine_files(opf, all_files, k + 1, ordered_files)

\* for html_file in html_files: if html_file not in ordered_files: append
append_other_html(all_files, ordered_files) ==
    ordered_files \o
    keep(all_files, {f \in SeqRange(all_files) : is_html(f) /\ f \notin SeqRange(ordered_files)})

get_reading_order(opf, all_files) ==
    IF opf.found
      THEN LET ordered_files == append_other_html(all_files, spine_files(opf, all_files, 1, <<>>))
           IN  IF ordered_files # <<>> THEN ordered_files
               ELSE sorted_paths(html_files(all_files))
      ELSE sorted_paths(html_files(all_files))

READING_ORDER == "get_reading_order"

InitReadingOrder == PipelineAtRest /\ sk = NoSkipCall /\ fn = NoCall

CallGetReadingOrder ==
    /\ fn.op = "none"
    /\ \E opf \in Opfs, all_files \in Listings(DocEntries, MaxEntries) :
          fn' = [op |-> READING_ORDER, opf |-> opf, all_files |-> all_files,
                 result |-> get_reading_order(opf, all_files)]
    /\ UNCHANGED <<pipeline_vars, sk>>

NextReadingOrder == CallGetReadingOrder

SpecReadingOrder == InitReadingOrder /\ [][NextReadingOrder]_vars

\* ------------------------------------------------------------------- C18
ReadingOrderCalled == fn.op = READING_ORDER /\ fn.opf.found

\* the documents the itemrefs of the spine resolve to, in spine order
SpineDocuments == spine_files(fn.opf, fn.all_files, 1, <<>>)

RECURSIVE FirstMentions(_, _)
\* a sequence with every repetition of a value left out
FirstMentions(q, seen) ==
    IF q = <<>> THEN seen
    ELSE IF Head(q) \in SeqRange(seen) THEN FirstMentions(Tail(q), seen)
    ELSE FirstMentions(Tail(q), Append(seen, Head(q)))

\* C18: with a package document read, the reading order is the spine's
\* itemrefs resolved to existing .xhtml/.html entries, in spine order,
\* followed by every other HTML entry in listing order; every HTML entry of
\* the archive is in it and no path is in it twice, also when the spine
\* names one document more than once.
C18_SpineThenRest ==
    ReadingOrderCalled =>
        /\ fn.result =
              FirstMentions(SpineDocuments, <<>>) \o
              keep(fn.all_files,
                   {f \in SeqRange(fn.all_files) :
                       is_html(f) /\ f \notin SeqRange(SpineDocuments)})
        /\ SeqRange(fn.result) = {f \in SeqRange(fn.all_files) : is_html(f)}
        /\ NoRepeat(fn.result)

\* =========================================================================
\* EPUBImageExtractor.extract_image_references
\* =========================================================================
\* most <img> tags in one document
MaxSrcs == 2

IMG_A == Path(<<"OEBPS", "img">>, "a", ".jpg")
COVER == Path(<<>>, "cover", ".jpg")

\* the archive listings tried: two documents and two images, the documents
\* listed in either order, and one archive without the cover
RefListings == {<<CH1, INDEX, IMG_A, COVER>>, <<COVER, INDEX, IMG_A, CH1>>, <<INDEX, CH1, IMG_A>>}

\* the package documents tried: none, or one at the archive root whose spine
\* is empty, names both documents in either order, or names one twice
RefManifest == [i \in Ids |-> IF i = "i1" THEN INDEX ELSE CH1]
RefOpfs ==
    {NoOpf} \cup
    [found : {TRUE}, dir : {<<>>}, manifest : {RefManifest},
     spine : {<<>>, <<"i1", "i2">>, <<"i2", "i1">>, <<"i2", "i2">>}]

\* the src values tried: img/a.jpg, ../cover.jpg, cover.jpg,
\* OEBPS/img/a.jpg, and the empty string
EMPTY_SRC == Path(<<>>, "", "")
RawSrcs ==
    {Path(<<"img">>, "a", ".jpg"), Path(<<"..">>, "cover", ".jpg"), COVER, IMG_A, EMPTY_SRC}

\* what reading a document gives: an exception, or the src values of its
\* <img> tags in document order
DocContents == {[raises |-> TRUE, srcs |-> <<>>]} \cup [raises : {FALSE}, srcs : SeqsUpTo(RawSrcs, MaxSrcs)]

RECURSIVE normpath(_, _)
\* os.path.normpath on the segments of a relative path
normpath(segments, out) ==
    IF segments = <<>> THEN out
    ELSE IF Head(segments) = ".." /\ out # <<>> /\ out[Len(out)] # ".."
      THEN normpath(Tail(segments), SubSeq(out, 1, Len(out) - 1))
    ELSE normpath(Tail(segments), Append(out, Head(segments)))

\* os.path.normpath(os.path.join(os.path.dirname(base_path), relative_path))
normalize_path(base_path, relative_path) ==
    [dir |-> normpath(base_path.dir \o relative_path.dir, <<>>), file |-> relative_path.file]

\* the two lists after one more src, without the test for a path already taken
add_reference_again(all_files, lists, resolved) ==
    IF resolved \in SeqRange(all_files)
      THEN [lists EXCEPT !.image_paths = Append(@, resolved)]
    ELSE IF resolved \notin SeqRange(all_files)
      THEN [lists EXCEPT !.missing_images = Append(@, resolved)]
    ELSE lists

\* the two lists after one more resolved src
add_reference(all_files, lists, resolved) ==
    IF resolved \in SeqRange(all_files) /\ resolved \notin SeqRange(lists.image_paths)
      THEN [lists EXCEPT !.image_paths = Append(@, resolved)]
    ELSE IF resolved \notin SeqRange(all_files)
      THEN [lists EXCEPT !.missing_images = Append(@, resolved)]
    ELSE lists

RECURSIVE read_tags(_, _, _, _, _)
\* for img_tag in soup.find_all("img")
read_tags(all_files, html_file, srcs, k, lists) ==
    IF k > Len(srcs) THEN lists
    ELSE IF srcs[k] = EMPTY_SRC
      THEN read_tags(all_files, html_file, srcs, k + 1, lists)
    ELSE read_tags(all_files, html_file, srcs, k + 1,
                   add_reference(all_files, lists, normalize_path(html_file, srcs[k])))

RECURSIVE read_documents(_, _, _, _, _)
\* for html_file in html_files: a document that cannot be read is passed over
read_documents(all_files, contents, order, k, lists) ==
    IF k > Len(order) THEN lists
    ELSE IF contents[order[k]].raises
      THEN read_documents(all_files, contents, order, k + 1, lists)
    ELSE read_documents(all_files, contents, order, k + 1,
                        read_tags(all_files, order[k], contents[order[k]].srcs, 1, lists))

extract_image_references(opf, all_files, contents) ==
    read_documents(all_files, contents, get_reading_order(opf, all_files), 1,
                   [image_paths |-> <<>>, missing_images |-> <<>>])

IMAGE_REFERENCES == "extract_image_references"

InitImageReferences == PipelineAtRest /\ sk = NoSkipCall /\ fn = NoCall

CallExtractImageReferences ==
    /\ fn.op = "none"
    /\ \E opf \in RefOpfs, all_files \in RefListings, contents \in [{CH1, INDEX} -> DocContents] :
          LET lists == extract_image_references(opf, all_files, contents)
          IN  fn' = [op |-> IMAGE_REFERENCES, opf |-> opf, all_files |-> all_files,
                     contents |-> contents,
                     image_paths |-> lists.image_paths,
                     missing_images |-> lists.missing_images]
    /\ UNCHANGED <<pipeline_vars, sk>>

NextImageReferences == CallExtractImageReferences

SpecImageReferences == InitImageReferences /\ [][NextImageReferences]_vars

\* ------------------------------------------------------------------- C19
ReferencesCalled == fn.op = IMAGE_REFERENCES

RECURSIVE ResolvedOf(_, _, _)
\* the non-empty src values of a document, resolved, in document order
ResolvedOf(html_file, srcs, k) ==
    IF k > Len(srcs) THEN <<>>
    ELSE IF srcs[k] = EMPTY_SRC THEN ResolvedOf(html_file, srcs, k + 1)
    ELSE <<normalize_path(html_file, srcs[k])>> \o ResolvedOf(html_file, srcs, k + 1)

RECURSIVE ReferencesInOrder(_, _)
\* every resolved src of every document read, documents in reading order
ReferencesInOrder(order, k) ==
    IF k > Len(order) THEN <<>>
    ELSE IF fn.contents[order[k]].raises THEN ReferencesInOrder(order, k + 1)
    ELSE ResolvedOf(order[k], fn.contents[order[k]].srcs, 1) \o ReferencesInOrder(order, k + 1)

References == ReferencesInOrder(get_reading_order(fn.opf, fn.all_files), 1)

InArchive(path) == path \in SeqRange(fn.all_files)

\* C19: every accepted path is an archive entry, none occurs twice, and
\* the accepted paths stand in the order of their first reference, the
\* documents taken in reading order; every resolved src that is no archive
\* entry is in the missing list and not in the accepted list.
C19_AcceptedAndMissing ==
    ReferencesCalled =>
        /\ \A path \in SeqRange(fn.image_paths) : InArchive(path)
        /\ NoRepeat(fn.image_paths)
        /\ fn.image_paths =
              FirstMentions(keep(References, {r \in SeqRange(References) : InArchive(r)}), <<>>)
        /\ \A r \in SeqRange(References) :
              ~InArchive(r) =>
                  /\ r \in SeqRange(fn.missing_images)
                  /\ r \notin SeqRange(fn.image_paths)

\* index.html is read before OEBPS/ch1.xhtml although listed after it; the
\* first names the cover and then ../cover.jpg, which is no entry; the
\* second reaches the cover once more through .. and then names img/a.jpg.
C19_Witness ==
    /\ ReferencesCalled
    /\ fn.all_files = <<CH1, INDEX, IMG_A, COVER>>
    /\ fn.opf.found /\ fn.opf.spine = <<"i1", "i2">>
    /\ fn.contents[INDEX].srcs = <<COVER, Path(<<"..">>, "cover", ".jpg")>>
    /\ fn.contents[CH1].srcs = <<Path(<<"..">>, "cover", ".jpg"), Path(<<"img">>, "a", ".jpg")>>
    /\ fn.image_paths = <<COVER, IMG_A>>
    /\ fn.missing_images = <<Path(<<"..">>, "cover", ".jpg")>>

\* =========================================================================
\* EPUBImageExtractor.extract_images: the paths it goes on to process
\* =========================================================================
IMAGE_EXTENSIONS == {".jpg", ".jpeg", ".png", ".webp", ".gif", ".bmp", ".svg"}

A_JPG == Path(<<"img">>, "a", ".jpg")
B_PNG == Path(<<"img">>, "b", ".png")
C_PNG == Path(<<"img">>, "c", ".PNG")

\* the archive listings tried: three images and no document; a document
\* among images, one with its extension in capitals, and a text file; a
\* document and no image
ImageListings == {<<A_JPG, B_PNG, COVER>>, <<COVER, INDEX, NOTES, C_PNG, A_JPG>>, <<NOTES, INDEX>>}

\* str.lower() on the extensions tried
lower(ext) == IF ext = ".PNG" THEN ".png" ELSE ext

\* os.path.splitext(f)[1].lower() in self.IMAGE_EXTENSIONS
is_image(f) == lower(f.file[2]) \in IMAGE_EXTENSIONS

\* [f for f in all_files if os.path.splitext(f)[1].lower() in self.IMAGE_EXTENSIONS]
archive_images(all_files) == keep(all_files, {f \in SeqRange(all_files) : is_image(f)})

\* the referenced paths, with no turn to the archive's images
image_paths_or_nothing(image_paths, all_files) == image_paths

\* if not image_paths: image_paths = [the archive's images]
image_paths_or_archive(image_paths, all_files) ==
    IF image_paths = <<>> THEN archive_images(all_files) ELSE image_paths

\* image_paths and missing_images as extract_images has them before its loop
image_paths_to_process(use_html_refs, opf, all_files, contents) ==
    IF use_html_refs
      THEN LET lists == extract_image_references(opf, all_files, contents)
           IN  [image_paths |-> image_paths_or_archive(lists.image_paths, all_files),
                missing_images |-> lists.missing_images]
      ELSE [image_paths |-> archive_images(all_files), missing_images |-> <<>>]

IMAGE_PATHS == "extract_images: image_paths"

InitImagePaths == PipelineAtRest /\ sk = NoSkipCall /\ fn = NoCall

CallImagePaths ==
    /\ fn.op = "none"
    /\ \E use_html_refs \in BOOLEAN, opf \in RefOpfs, all_files \in ImageListings,
          contents \in [{INDEX} -> DocContents] :
          LET lists == image_paths_to_process(use_html_refs, opf, all_files, contents)
          IN  fn' = [op |-> IMAGE_PATHS, use_html_refs |-> use_html_refs, opf |-> opf,
                     all_files |-> all_files, contents |-> contents,
                     image_paths |-> lists.image_paths,
                     missing_images |-> lists.missing_images]
    /\ UNCHANGED <<pipeline_vars, sk>>

NextImagePaths == CallImagePaths

SpecImagePaths == InitImagePaths /\ [][NextImagePaths]_vars

\* ------------------------------------------------------------------- C20
ImagePathsCalled == fn.op = IMAGE_PATHS

\* the archive entries some <img> of a document read resolves to
Resolving == {r \in SeqRange(References) : InArchive(r)}

\* the archive entries with the extension of a known image type, as listed
KnownImages ==
    keep(fn.all_files,
         {f \in SeqRange(fn.all_files) :
             f.file[2] \in IMAGE_EXTENSIONS \cup {".PNG"}})

FallbackRule ==
    IF Resolving = {}
      THEN fn.image_paths = KnownImages
      ELSE SeqRange(fn.image_paths) = Resolving

\* C20 as stated: when no <img> of any document resolves to an archive
\* entry, the paths processed are the archive's known image entries in
\* listing order; when one resolves, no unreferenced entry is processed.
C20_FallbackAlways == ImagePathsCalled => FallbackRule

\* C20: with use_html_refs on, when no <img> of any document resolves to
\* an archive entry, the paths processed are the archive's known image
\* entries in listing order, and when one resolves, no unreferenced entry
\* is processed; with use_html_refs off, the paths processed are the
\* archive's known image entries in listing order, referenced or not.
C20_FallbackWithHtmlRefs ==
    ImagePathsCalled =>
        IF fn.use_html_refs THEN FallbackRule ELSE fn.image_paths = KnownImages

\* no document, hence no <img>: img/a.jpg, img/b.png, cover.jpg as listed
C20_Witness ==
    /\ ImagePathsCalled /\ fn.use_html_refs
    /\ fn.all_files = <<A_JPG, B_PNG, COVER>>
    /\ Resolving = {}
    /\ fn.image_paths = <<A_JPG, B_PNG, COVER>>

\* =========================================================================
\* image_analysis.classify_image
\* =========================================================================
THUMBNAIL_EDGE == 140
DECORATION_BYTES == 4096

\* the widths and heights tried: unknown, at and around the thumbnail edge,
\* and pairs at and around the ratios 4 and 1/4
ClassifyEdges == {0, 100, 120, 140, 141, 150, 563, 564, 565, 600, 800}
ClassifySizes == {0, 4095, 4096, 5000}

\* metrics.aspect_ratio >= 4.0, the ratio being width / height for a
\* positive height; with whole numbers below 2^32 the float quotient is at
\* least 4.0 exactly when width >= 4 * height
aspect_ratio_at_least_4(metrics) ==
    metrics.height > 0 /\ metrics.width >= 4 * metrics.height

\* metrics.aspect_ratio <= 0.25
aspect_ratio_at_most_quarter(metrics) ==
    metrics.height <= 0 \/ 4 * metrics.width <= metrics.height

\* classify_image with the ratio looked at before the edges
classify_image_ratio_first(metrics, is_cover) ==
    IF is_cover THEN "cover"
    ELSE IF /\ metrics.width > 0 /\ metrics.height > 0
            /\ (aspect_ratio_at_least_4(metrics) \/ aspect_ratio_at_most_quarter(metrics))
      THEN "decoration"
    ELSE IF /\ metrics.width > 0 /\ metrics.height > 0
            /\ (metrics.width <= THUMBNAIL_EDGE \/ metrics.height <= THUMBNAIL_EDGE)
      THEN "thumbnail"
    ELSE IF metrics.size_bytes < DECORATION_BYTES THEN "decoration"
    ELSE "page"

classify_image(metrics, is_cover) ==
    IF is_cover THEN "cover"
    ELSE IF /\ metrics.width > 0 /\ metrics.height > 0
            /\ (metrics.width <= THUMBNAIL_EDGE \/ metrics.height <= THUMBNAIL_EDGE)
      THEN "thumbnail"
    ELSE IF /\ metrics.width > 0 /\ metrics.height > 0
            /\ (aspect_ratio_at_least_4(metrics) \/ aspect_ratio_at_most_quarter(metrics))
      THEN "decoration"
    ELSE IF metrics.size_bytes < DECORATION_BYTES THEN "decoration"
    ELSE "page"

CLASSIFY == "classify_image"

InitClassify == PipelineAtRest /\ sk = NoSkipCall /\ fn = NoCall

CallClassifyImage ==
    /\ fn.op = "none"
    /\ \E width \in ClassifyEdges, height \in ClassifyEdges, size_bytes \in ClassifySizes,
          is_cover \in BOOLEAN :
          LET metrics == [size_bytes |-> size_bytes, width |-> width, height |-> height]
          IN  fn' = [op |-> CLASSIFY, metrics |-> metrics, is_cover |-> is_cover,
                     result |-> classify_image(metrics, is_cover)]
    /\ UNCHANGED <<pipeline_vars, sk>>

NextClassify == CallClassifyImage

SpecClassify == InitClassify /\ [][NextClassify]_vars

\* ------------------------------------------------------------------- C21
Classified == fn.op = CLASSIFY

BothKnown == fn.metrics.width > 0 /\ fn.metrics.height > 0
SomeEdgeSmall == fn.metrics.width <= 140 \/ fn.metrics.height <= 140
ExtremeRatio ==
    fn.metrics.width >= 4 * fn.metrics.height \/ 4 * fn.metrics.width <= fn.metrics.height

\* C21: classify_image is the decision table: a cover is 'cover'; else
\* with both dimensions known and one of them at most 140, 'thumbnail';
\* else with both known and width >= 4 * height or 4 * width <= height,
\* 'decoration'; else with fewer than 4096 bytes, 'decoration'; else 'page'.
C21_DecisionTable ==
    Classified =>
        fn.result =
            CASE fn.is_cover -> "cover"
              [] ~fn.is_cover /\ BothKnown /\ SomeEdgeSmall -> "thumbnail"
              [] ~fn.is_cover /\ BothKnown /\ ~SomeEdgeSmall /\ ExtremeRatio -> "decoration"
              [] /\ ~fn.is_cover /\ ~(BothKnown /\ (SomeEdgeSmall \/ ExtremeRatio))
                 /\ fn.metrics.size_bytes < 4096 -> "decoration"
              [] OTHER -> "page"

\* 564 x 141 with 5000 bytes: no edge at or below 140, the ratio exactly 4
C21_Witness ==
    /\ Classified /\ ~fn.is_cover
    /\ fn.metrics = [size_bytes |-> 5000, width |-> 564, height |-> 141]
    /\ fn.result = "decoration"

\* ------------------------------------------------------------------- C22
\* C22: an image that is no cover and whose aspect ratio is at most 0.25 or
\* at least 4.0, such as one of 120 x 800, is classified 'decoration', also
\* when one of its dimensions is at most 140.
C22_ExtremeRatioIsDecoration ==
    (Classified /\ ~fn.is_cover /\ BothKnown /\ ExtremeRatio) => fn.result = "decoration"

\* =========================================================================
\* image_analysis.parse_image_metrics, the JPEG marker walk one turn per step
\* =========================================================================
\* most chunks after the start-of-image marker in a JPEG buffer tried
MaxChunks == 3

\* data.startswith(prefix)
startswith(data, prefix) ==
    Len(data) >= Len(prefix) /\ SubSeq(data, 1, Len(prefix)) = prefix

\* data[a:b]
bytes_between(data, a, b) == SubSeq(data, a + 1, IF b <= Len(data) THEN b ELSE Len(data))

RECURSIVE contains(_, _)
\* needle in data
contains(data, needle) ==
    IF Len(data) < Len(needle) THEN FALSE
    ELSE startswith(data, needle) \/ contains(Tail(data), needle)

RECURSIVE big_endian(_)
\* int.from_bytes(b, "big"), as struct.unpack(">H") and (">L") read a field
big_endian(b) == IF b = <<>> THEN 0 ELSE big_endian(SubSeq(b, 1, Len(b) - 1)) * 256 + b[Len(b)]

RECURSIVE little_endian(_)
\* int.from_bytes(b, "little")
little_endian(b) == IF b = <<>> THEN 0 ELSE b[1] + 256 * little_endian(Tail(b))

PNG_MAGIC == <<137, 80, 78, 71, 13, 10, 26, 10>>
GIF87 == <<71, 73, 70, 56, 55, 97>>
GIF89 == <<71, 73, 70, 56, 57, 97>>
BMP_MAGIC == <<66, 77>>
RIFF == <<82, 73, 70, 70>>
WEBP == <<87, 69, 66, 80>>
VP8X == <<86, 80, 56, 88>>
VP8L == <<86, 80, 56, 76>>
SVG_TAG == <<60, 115, 118, 103>>
JPEG_MAGIC == <<255, 216, 255>>
SOI == <<255, 216>>

_detect_extension(data) ==
    IF startswith(data, JPEG_MAGIC) THEN ".jpg"
    ELSE IF startswith(data, PNG_MAGIC) THEN ".png"
    ELSE IF startswith(data, GIF87) \/ startswith(data, GIF89) THEN ".gif"
    ELSE IF startswith(data, BMP_MAGIC) THEN ".bmp"
    ELSE IF Len(data) > 12 /\ bytes_between(data, 8, 12) = WEBP THEN ".webp"
    ELSE IF startswith(data, SVG_TAG) \/ contains(bytes_between(data, 0, 512), SVG_TAG) THEN ".svg"
    ELSE ".jpg"

\* what a dimension parser returns: None, or a pair
None == [found |-> FALSE, width |-> 0, height |-> 0]
Dimensions(width, height) == [found |-> TRUE, width |-> width, height |-> height]

_parse_png_dimensions(data) ==
    IF Len(data) < 24 THEN None
    ELSE IF ~startswith(data, PNG_MAGIC) THEN None
    ELSE Dimensions(big_endian(bytes_between(data, 16, 20)), big_endian(bytes_between(data, 20, 24)))

_parse_gif_dimensions(data) ==
    IF Len(data) < 10 THEN None
    ELSE IF ~(startswith(data, GIF87) \/ startswith(data, GIF89)) THEN None
    ELSE Dimensions(little_endian(bytes_between(data, 6, 8)), little_endian(bytes_between(data, 8, 10)))

_parse_bmp_dimensions(data) ==
    IF Len(data) < 26 THEN None
    ELSE IF ~startswith(data, BMP_MAGIC) THEN None
    ELSE Dimensions(little_endian(bytes_between(data, 18, 22)), little_endian(bytes_between(data, 22, 26)))

_parse_webp_dimensions(data) ==
    IF Len(data) < 30 THEN None
    ELSE IF ~(startswith(data, RIFF) /\ bytes_between(data, 8, 12) = WEBP) THEN None
    ELSE IF bytes_between(data, 12, 16) = VP8X /\ Len(data) >= 30
      THEN Dimensions(1 + little_endian(bytes_between(data, 24, 27)),
                      1 + little_endian(bytes_between(data, 27, 30)))
    ELSE IF bytes_between(data, 12, 16) = VP8L /\ Len(data) >= 25
      THEN LET b0 == data[22]
               b1 == data[23]
               b2 == data[24]
               b3 == data[25]
           IN  Dimensions(1 + ((b1 % 64) * 256 + b0),
                          1 + ((b3 % 16) * 1024 + b2 * 4 + (b1 \div 64)))
    ELSE None

\* png or gif or bmp or webp: the first parser that returns a pair
parsed_before_jpeg(data) ==
    IF _parse_png_dimensions(data).found THEN _parse_png_dimensions(data)
    ELSE IF _parse_gif_dimensions(data).found THEN _parse_gif_dimensions(data)
    ELSE IF _parse_bmp_dimensions(data).found THEN _parse_bmp_dimensions(data)
    ELSE _parse_webp_dimensions(data)

\* the markers whose segment holds the frame's height and width
SOF_MARKERS == {192, 193, 194, 195, 197, 198, 199, 201, 202, 203, 205, 206, 207}

\* the walk goes on while a byte is left
walk_continues_to_end(i, n) == i < n

\* while i + 9 < len(data)
walk_continues(i, n) == i + 9 < n

\* not (seg_len < 2 or i + seg_len > len(data))
segment_fits(seg_len, i, n) == ~(seg_len < 2 \/ i + seg_len > n)

\* ImageMetrics(size_bytes, width, height, extension)
ImageMetrics(data, parsed) ==
    [size_bytes |-> Len(data), width |-> parsed.width, height |-> parsed.height,
     extension |-> _detect_extension(data)]

\* JPEG buffers: the start-of-image marker, up to MaxChunks chunks, zero
\* bytes after them. The chunks: a start-of-image marker, a segment of the
\* least length, segments whose length field is 0, 1 and 65535, a frame
\* header (height 16, width 32), a byte that is no marker, a lone 0xFF.
JpegChunks ==
    {<<255, 216>>, <<255, 224, 0, 2>>, <<255, 224, 0, 0>>, <<255, 224, 0, 1>>,
     <<255, 224, 255, 255>>, <<255, 192, 0, 7, 8, 0, 16, 0, 32>>, <<0>>, <<255>>}
PadLengths == {0, 3, 6, 8, 12}

RECURSIVE Flatten(_)
Flatten(chunks) == IF chunks = <<>> THEN <<>> ELSE Head(chunks) \o Flatten(Tail(chunks))

JpegBuffers ==
    {SOI \o Flatten(chunks) \o [k \in 1..pad |-> 0] :
        chunks \in SeqsUpTo(JpegChunks, MaxChunks), pad \in PadLengths}

\* one whole file of each other kind; every prefix of each is tried
PNG_FILE == PNG_MAGIC \o <<0, 0, 0, 13, 73, 72, 68, 82, 0, 0, 1, 0, 0, 0, 2, 0, 8, 2>>
GIF_FILE == GIF89 \o <<44, 1, 200, 0, 0, 0>>
BMP_FILE == BMP_MAGIC \o [k \in 1..16 |-> 0] \o <<64, 1, 0, 0, 240, 0, 0, 0, 1, 0>>
WEBP_X_FILE == RIFF \o <<24, 0, 0, 0>> \o WEBP \o VP8X \o <<10, 0, 0, 0, 0, 0, 0, 0, 63, 1, 0, 239, 0, 0, 0, 0>>
WEBP_L_FILE == RIFF \o <<24, 0, 0, 0>> \o WEBP \o VP8L \o <<10, 0, 0, 0, 47, 63, 65, 60, 0, 0, 0, 0, 0, 0, 0, 0>>
WEBP_OTHER_FILE == RIFF \o <<24, 0, 0, 0>> \o WEBP \o <<86, 80, 56, 32>> \o [k \in 1..16 |-> 0]
SVG_FILE == <<32, 10>> \o SVG_TAG \o <<62>>
JPEG_FILE == JPEG_MAGIC \o <<224, 0, 4, 0, 0, 255, 192, 0, 11, 8, 1, 0, 2, 0, 3, 0, 0, 0, 0>>

Prefixes(file) == {SubSeq(file, 1, n) : n \in 0..Len(file)}

ImageBuffers ==
    JpegBuffers \cup
    UNION {Prefixes(file) : file \in {PNG_FILE, GIF_FILE, BMP_FILE, WEBP_X_FILE, WEBP_L_FILE,
                                       WEBP_OTHER_FILE, SVG_FILE, JPEG_FILE}}

METRICS == "parse_image_metrics"

InitMetrics == PipelineAtRest /\ sk = NoSkipCall /\ fn = NoCall

MetricsFrame(data, i, status, parsed) ==
    [op |-> METRICS, data |-> data, i |-> i, advanced |-> TRUE, status |-> status,
     result |-> ImageMetrics(data, parsed)]

\* parse_image_metrics(data), up to the first turn of the JPEG walk
CallParseImageMetrics ==
    /\ fn.op = "none"
    /\ \E data \in ImageBuffers :
          LET parsed == parsed_before_jpeg(data)
          IN  IF parsed.found
                THEN fn' = MetricsFrame(data, 0, "returned", parsed)
              ELSE IF Len(data) < 4 \/ ~startswith(data, SOI)
                THEN fn' = MetricsFrame(data, 0, "returned", None)
              ELSE fn' = MetricsFrame(data, 2, "walking", None)
    /\ UNCHANGED <<pipeline_vars, sk>>

\* the walk is over with a pair, or with None
Finished(frame, i, parsed) ==
    [frame EXCEPT !.i = i, !.status = "returned", !.result = ImageMetrics(frame.data, parsed)]

Failed(frame, i, error) ==
    [frame EXCEPT !.i = i, !.status = error]

\* one turn of `while i + 9 < len(data)`
JpegStep ==
    /\ fn.op = METRICS /\ fn.status = "walking"
    /\ walk_continues(fn.i, Len(fn.data))
    /\ LET data == fn.data
           n == Len(data)
       IN  IF data[fn.i + 1] # 255
             THEN fn' = [fn EXCEPT !.i = @ + 1, !.advanced = @ /\ fn.i + 1 > fn.i]
           ELSE IF fn.i + 1 >= n
             THEN fn' = Failed(fn, fn.i, "raised: IndexError")
           ELSE LET marker == data[fn.i + 2]
                    i == fn.i + 2
                    seg_len == big_endian(bytes_between(data, i, i + 2))
                IN  IF marker \in {216, 217}
                      THEN fn' = [fn EXCEPT !.i = i, !.advanced = @ /\ i > fn.i]
                    ELSE IF i + 2 > n
                      THEN fn' = Finished(fn, i, None)
                    ELSE IF ~segment_fits(seg_len, i, n)
                      THEN fn' = Finished(fn, i, None)
                    ELSE IF marker \in SOF_MARKERS
                      THEN IF i + 7 <= n
                             THEN fn' = Finished(fn, i,
                                           Dimensions(big_endian(bytes_between(data, i + 5, i + 7)),
                                                      big_endian(bytes_between(data, i + 3, i + 5))))
                             ELSE fn' = Finished(fn, i, None)
                    ELSE fn' = [fn EXCEPT !.i = i + seg_len,
                                          !.advanced = @ /\ i + seg_len > fn.i]
    /\ UNCHANGED <<pipeline_vars, sk>>

\* the loop condition fails: return None
JpegExit ==
    /\ fn.op = METRICS /\ fn.status = "walking"
    /\ ~walk_continues(fn.i, Len(fn.data))
    /\ fn' = Finished(fn, fn.i, None)
    /\ UNCHANGED <<pipeline_vars, sk>>

NextMetrics == CallParseImageMetrics \/ JpegStep \/ JpegExit

SpecMetrics == InitMetrics /\ [][NextMetrics]_vars

\* ------------------------------------------------------------------- C23
MetricsCalled == fn.op = METRICS

\* the data opens with none of the signatures a parser or the extension
\* detection looks for
NoSignature ==
    /\ \A magic \in {PNG_MAGIC, GIF87, GIF89, BMP_MAGIC, SOI} : ~startswith(fn.data, magic)
    /\ ~(Len(fn.data) > 12 /\ bytes_between(fn.data, 8, 12) = WEBP)
    /\ ~contains(fn.data, SVG_TAG)

\* C23: on every buffer parse_image_metrics raises nothing; each turn of
\* the JPEG marker walk has moved the position forward and the position
\* stays inside the data; and a buffer in which no signature is recognised
\* comes back with width = height = 0 and extension '.jpg'.
C23_Total ==
    MetricsCalled =>
        /\ fn.status \in {"walking", "returned"}
        /\ fn.advanced
        /\ fn.i <= Len(fn.data)
        /\ fn.result.size_bytes = Len(fn.data)
        /\ (fn.status = "returned" /\ NoSignature) =>
              /\ fn.result.width = 0 /\ fn.result.height = 0
              /\ fn.result.extension = ".jpg"

\* the walk has passed a segment of the least length and stopped, without
\* dimensions, at a segment whose length field is 0
C23_Witness ==
    /\ MetricsCalled /\ fn.status = "returned"
    /\ fn.data = SOI \o <<255, 224, 0, 2>> \o <<255, 224, 0, 0>> \o [k \in 1..12 |-> 0]
    /\ fn.i = 8
    /\ fn.result.width = 0 /\ fn.result.height = 0 /\ fn.result.extension = ".jpg"

\* ------------------------------------------------------------------- C24
\* the indices in the names of the files in a book's output directory
WrittenIndices(f) == {g.index : g \in fs[f].files}

\* C24: while a book is extracted for real, whatever images were accepted,
\* rejected or failed so far, the files in its directory carry exactly the
\* indices 0..saved-1, and no two files carry the same index.
C24_IndicesAreDense ==
    \A t \in Threads :
        (th[t].pc \in {"images", "decided"} /\ ~call.dry_run) =>
            /\ WrittenIndices(th[t].file) = 0..(th[t].stats.saved - 1)
            /\ \A g, h \in fs[th[t].file].files : g.index = h.index => g = h

\* =========================================================================
\* MobiImageExtractor.extract_metadata: MOBI header, EXTH flags, EXTH entries
\* =========================================================================
\* most EXTH entries in a record 0 tried
MaxExth == 2

EXTH_FLAGS_FROM == 244
EXTH_AUTHOR == 100
EXTH_PUBLISHER == 101
EXTH_COVER_OFFSET == 201
EXTH_TITLE == 503

\* record 0 as the header readers see it: whether the MOBI magic stands at
\* offset 16, the header_length field, the 32-bit field at MOBI offset 128,
\* whether the EXTH magic stands at record0_start + 16 + header_length, and
\* the EXTH entries (type, value) that follow it; a value is a short text
\* or, for the cover offset, four bytes read as a number
HeaderLengths == {132, 232, 243, 244, 264}
FlagWords == {0, 64, 80, 16}
ExthEntries ==
    {[type |-> EXTH_AUTHOR, text |-> "Alice", number |-> 0],
     [type |-> EXTH_AUTHOR, text |-> "Bob", number |-> 0],
     [type |-> EXTH_PUBLISHER, text |-> "Press", number |-> 0],
     [type |-> EXTH_TITLE, text |-> "Title", number |-> 0],
     [type |-> EXTH_COVER_OFFSET, text |-> "", number |-> 1],
     [type |-> 999, text |-> "other", number |-> 0]}
Record0s ==
    [mobi_magic : BOOLEAN, header_length : HeaderLengths, flags_at_128 : FlagWords,
     exth_magic : BOOLEAN, entries : SeqsUpTo(ExthEntries, MaxExth)]

\* if header["header_length"] >= 244: header["exth_flags"] = ...
exth_flags(record0) ==
    IF record0.header_length >= EXTH_FLAGS_FROM
      THEN [present |-> TRUE, value |-> record0.flags_at_128]
      ELSE [present |-> FALSE, value |-> 0]

\* mobi_header.get("exth_flags", 0) & 0x40
exth_bit(flags) == flags.present /\ (flags.value \div 64) % 2 = 1

NoMetadata == [title |-> "", author |-> "", publisher |-> "", cover_offset |-> -1]

RECURSIVE read_exth_entries(_, _, _)
\* for _ in range(exth_count): known types are kept, a later entry of a
\* type replaces an earlier one
read_exth_entries(entries, k, exth_data) ==
    IF k > Len(entries) THEN exth_data
    ELSE LET e == entries[k]
         IN  read_exth_entries(entries, k + 1,
                 IF e.type = EXTH_AUTHOR THEN [exth_data EXCEPT !.author = e.text]
                 ELSE IF e.type = EXTH_PUBLISHER THEN [exth_data EXCEPT !.publisher = e.text]
                 ELSE IF e.type = EXTH_TITLE THEN [exth_data EXCEPT !.title = e.text]
                 ELSE IF e.type = EXTH_COVER_OFFSET THEN [exth_data EXCEPT !.cover_offset = e.number]
                 ELSE exth_data)

_read_exth_header(record0) ==
    IF ~record0.exth_magic THEN NoMetadata
    ELSE read_exth_entries(record0.entries, 1, NoMetadata)

\* extract_metadata, from the MOBI header on; the title of the header's
\* full-name field is left out (no full name in the records tried)
extract_metadata(record0) ==
    IF ~record0.mobi_magic THEN NoMetadata
    ELSE IF exth_bit(exth_flags(record0)) THEN _read_exth_header(record0)
    ELSE NoMetadata

METADATA == "extract_metadata"

InitExth == PipelineAtRest /\ sk = NoSkipCall /\ fn = NoCall

CallExtractMetadata ==
    /\ fn.op = "none"
    /\ \E record0 \in Record0s :
          fn' = [op |-> METADATA, record0 |-> record0, metadata |-> extract_metadata(record0)]
    /\ UNCHANGED <<pipeline_vars, sk>>

NextExth == CallExtractMetadata

SpecExth == InitExth /\ [][NextExth]_vars

\* ------------------------------------------------------------------- C25
MetadataCalled == fn.op = METADATA

\* the MOBI magic, bit 0x40 of the flags field, and the EXTH magic
ExthAnnounced ==
    /\ fn.record0.mobi_magic
    /\ (fn.record0.flags_at_128 \div 64) % 2 = 1
    /\ fn.record0.exth_magic

\* C25: whenever record 0 carries the MOBI magic, the flags field has bit
\* 0x40 set and the EXTH magic is where the header length points, every
\* author, publisher, title and cover-offset entry of the EXTH block shows
\* in the metadata, whatever the header_length field holds.
C25_ExthReachesMetadata ==
    (MetadataCalled /\ ExthAnnounced) =>
        \A k \in 1..Len(fn.record0.entries) :
            LET e == fn.record0.entries[k]
            IN  /\ e.type = EXTH_AUTHOR => fn.metadata.author # ""
                /\ e.type = EXTH_PUBLISHER => fn.metadata.publisher = e.text
                /\ e.type = EXTH_TITLE => fn.metadata.title = e.text
                /\ e.type = EXTH_COVER_OFFSET => fn.metadata.cover_offset = e.number

\* ------------------------------------------------------------------- C26
\* the smallest detected image record number
SmallestDetected == CHOOSE x \in fn.image_map : \A y \in fn.image_map : x <= y

\* the header names no first image, and some image record is detected
HeaderSilent == OrderCalled /\ fn.first_image_index = 0 /\ fn.image_map # {}

\* the appended tail: what follows the referenced records in the output
OrderTail == SubSeq(OrderOut, Len(fn.result.referenced) + 1, Len(OrderOut))

\* the tail holds every detected record from `floor` on that no reference
\* emitted, in ascending order
TailFrom(floor) ==
    /\ SeqRange(OrderTail) =
          {r \in fn.image_map : r >= floor} \ SeqRange(fn.result.referenced)
    /\ \A j, k \in 1..Len(OrderTail) : j < k => OrderTail[j] < OrderTail[k]

\* C26 as claimed: with first_image_index 0 and some image record detected,
\* the relative strategies are tried with the smallest detected record
\* number as their base, and the tail is cut off at that number.
C26_SmallestIsBase ==
    HeaderSilent =>
        /\ Refs # <<>> => SelectionRule(SmallestDetected, TRUE)
        /\ TailFrom(SmallestDetected)

\* C26 as amended: the relative strategies are tried, from the smallest
\* detected record number, only when that number is positive; when record 0
\* itself is an image only the absolute strategy is tried.  The tail is cut
\* off at the smallest detected record number, that is, nothing is cut.
C26_SmallestIsBaseWhenPositive ==
    HeaderSilent =>
        /\ Refs # <<>> => SelectionRule(SmallestDetected, SmallestDetected > 0)
        /\ TailFrom(SmallestDetected)

\* the claim's example: records {2,3,4,5}, references [1,4,2], no first
\* image in the header, output [2,5,3,4] through relative-one from 2
C26_Witness ==
    /\ HeaderSilent
    /\ fn.image_map = {2, 3, 4, 5}
    /\ fn.html_order = <<1, 4, 2>>
    /\ fn.result.strategy = "relative1"
    /\ fn.result.base = 2
    /\ fn.result.image_records = <<2, 5, 3, 4>>

\* =========================================================================
\* What save_image writes (under Spec)
\* =========================================================================
\* ------------------------------------------------------------------- C27
\* thread t's step is a completed save_image of a real run
Saves(t) ==
    /\ ~call.dry_run
    /\ Deciding(t)
    /\ th'[t].stats.saved = th[t].stats.saved + 1

\* thread t's step is a should_skip_image call that lets the image pass
Passes(t) ==
    /\ th[t].pc = "images"
    /\ th'[t].pc = "decided"
    /\ ~th'[t].dec.should_skip

\* no two whole files of one output directory hold the same content
NoTwinFiles ==
    \A f \in Files : \A g1, g2 \in fs[f].files :
        (g1.hash[1] = "sha256" /\ g1.hash = g2.hash) => g1 = g2

\* C27 as claimed: at the moment save_image writes an image its hash is not
\* in ignored_hashes, not in the cache's in-memory set and, with
\* deduplication enabled, not the hash of a file saved earlier for the same
\* book; and no two files saved for one book have the same content hash.
C27_PassedWhenSaved ==
    /\ [][\A t \in Threads : Saves(t) =>
             /\ FrameHash(t) \notin ignored_hashes
             /\ ex.has_cache => FrameHash(t) \notin cache_hashes
             /\ ex.enable_deduplication => FrameHash(t) \notin SavedHashes(th[t].file)]_vars
    /\ []NoTwinFiles

\* C27 as amended: the image passed the filters when should_skip_image
\* evaluated it (hash not ignored, not in the cache's in-memory set as it
\* then was, not in the book's in-run set when deduplication is enabled);
\* at the save the hash is still not ignored and, with deduplication
\* enabled, not that of a file saved earlier for the book, and in a run
\* without a pool it is still absent from the cache's in-memory set.  With
\* deduplication enabled, or with a cache in a run without a pool, no two
\* files saved for one book have the same content hash.
C27_PassedWhenEvaluated ==
    /\ [][\A t \in Threads : Passes(t) =>
             LET h == hash_bytes_sha256(th'[t].data)
             IN  /\ h \notin ignored_hashes
                 /\ ex.has_cache => h \notin cache_hashes
                 /\ ex.enable_deduplication => h \notin extracted[t]]_vars
    /\ [][\A t \in Threads : Saves(t) =>
             /\ FrameHash(t) \notin ignored_hashes
             /\ (ex.has_cache /\ ~Parallel) => FrameHash(t) \notin cache_hashes
             /\ ex.enable_deduplication => FrameHash(t) \notin SavedHashes(th[t].file)]_vars
    /\ []((ex.enable_deduplication \/ (ex.has_cache /\ ~Parallel)) => NoTwinFiles)

\* a book of a run with deduplication enabled holds the same image twice:
\* the first is saved, the second rejected as duplicate, one file written
C27_Witness ==
    \E t \in Threads :
        /\ ~call.dry_run /\ ex.enable_deduplication /\ ~ex.has_cache
        /\ th[t].pc = "images"
        /\ th[t].stats.saved = 1
        /\ th[t].stats.duplicates = 1
        /\ Cardinality(fs[th[t].file].files) = 1

\* =========================================================================
\* BaseExtractor.extract_from_directory: the output directory of each file
\* =========================================================================
\* The pipeline model above keeps one output directory per file (fs[f]),
\* which is what the batch gives files whose names differ before the
\* extension; here the directory is computed from the file's path.
\* most images one book of the batch saves
MaxDirImages == 2

\* the ebook files the input directory may hold, in sorted() order of their
\* paths: a.azw3, a.mobi, b.mobi, sub/a.mobi
BatchPaths ==
    <<Path(<<>>, "a", ".azw3"), Path(<<>>, "a", ".mobi"),
      Path(<<>>, "b", ".mobi"), Path(<<"sub">>, "a", ".mobi")>>

RECURSIVE find_from(_, _, _)
\* find_files: the files present, those of subdirectories only when
\* `recursive`, sorted
find_from(present, recursive, k) ==
    IF k > Len(BatchPaths) THEN <<>>
    ELSE (IF k \in present /\ (recursive \/ BatchPaths[k].dir = <<>>)
            THEN <<BatchPaths[k]>> ELSE <<>>)
         \o find_from(present, recursive, k + 1)

find_files(present, recursive) == find_from(present, recursive, 1)

\* os.path.join(directory, os.path.splitext(os.path.basename(file_path))[0]),
\* as the name below `directory`
output_dir(file_path) == file_path.file[1]

OutputDirs == {output_dir(BatchPaths[k]) : k \in 1..Len(BatchPaths)}

BATCH_DIRS == "extract_from_directory"

IdleWorker == [pc |-> "idle", file |-> 0, saved |-> 0]

InitOutputDirs == PipelineAtRest /\ sk = NoSkipCall /\ fn = NoCall

\* extract_from_directory up to the loop or the pool; no output exists yet
CallExtractFromDirectory ==
    /\ fn.op = "none"
    /\ \E present \in SUBSET (1..Len(BatchPaths)), recursive \in BOOLEAN,
          parallelism \in PoolSizes :
          fn' = [op |-> BATCH_DIRS, files |-> find_files(present, recursive),
                 parallelism |-> parallelism, next |-> 1,
                 worker |-> [t \in PoolSizes |-> IdleWorker],
                 dirs |-> [d \in OutputDirs |-> {}]]
    /\ UNCHANGED <<pipeline_vars, sk>>

\* worker t (the loop itself when parallelism is 1) takes the next file
SingleFileStart(t) ==
    /\ fn.op = BATCH_DIRS
    /\ t <= fn.parallelism
    /\ fn.worker[t].pc = "idle"
    /\ fn.next <= Len(fn.files)
    /\ fn' = [fn EXCEPT !.worker[t] = [pc |-> "prepare", file |-> fn.next, saved |-> 0],
                        !.next = @ + 1]
    /\ UNCHANGED <<pipeline_vars, sk>>

\* prepare_output_directory(output_dir): shutil.rmtree, then os.makedirs
SingleFilePrepare(t) ==
    /\ fn.op = BATCH_DIRS
    /\ fn.worker[t].pc = "prepare"
    /\ fn' = [fn EXCEPT !.worker[t].pc = "images",
                        !.dirs[output_dir(fn.files[fn.worker[t].file])] = {}]
    /\ UNCHANGED <<pipeline_vars, sk>>

\* save_image: the file is written under the index stats.saved, in place of
\* a file of that name
SingleFileSave(t) ==
    /\ fn.op = BATCH_DIRS
    /\ fn.worker[t].pc = "images"
    /\ fn.worker[t].saved < MaxDirImages
    /\ LET w == fn.worker[t]
       IN  fn' = [fn EXCEPT !.worker[t].saved = @ + 1,
                            !.dirs[output_dir(fn.files[w.file])] =
                                {g \in @ : g.index # w.saved}
                                \cup {[index |-> w.saved, owner |-> w.file]}]
    /\ UNCHANGED <<pipeline_vars, sk>>

\* extract_images returns
SingleFileReturn(t) ==
    /\ fn.op = BATCH_DIRS
    /\ fn.worker[t].pc = "images"
    /\ fn' = [fn EXCEPT !.worker[t] = IdleWorker]
    /\ UNCHANGED <<pipeline_vars, sk>>

NextOutputDirs ==
    \/ CallExtractFromDirectory
    \/ \E t \in PoolSizes :
          \/ SingleFileStart(t)
          \/ SingleFilePrepare(t)
          \/ SingleFileSave(t)
          \/ SingleFileReturn(t)

SpecOutputDirs == InitOutputDirs /\ [][NextOutputDirs]_vars

\* ------------------------------------------------------------------- C28
BatchCalled == fn.op = BATCH_DIRS

\* worker t's step prepares its book's output directory
Prepares(t) == fn.worker[t].pc = "prepare" /\ fn'.worker[t].pc = "images"

\* C28: in one batch run any two distinct input files get distinct output
\* directories, and preparing one book's output directory never removes an
\* image written for another book of the batch, with and without a pool.
C28_OwnOutputDirectory ==
    /\ [](BatchCalled =>
             \A i, j \in 1..Len(fn.files) :
                 output_dir(fn.files[i]) = output_dir(fn.files[j]) => i = j)
    /\ [][BatchCalled =>
             \A t \in PoolSizes : Prepares(t) =>
                 \A g \in fn.dirs[output_dir(fn.files[fn.worker[t].file])] :
                     g.owner = fn.worker[t].file]_vars

\* =========================================================================
\* extract_images with dry_run=True and with dry_run=False on one book
\* =========================================================================
\* most images one book holds here
MaxBookImages == 3

\* a book as the image loop meets it: the payloads of image_paths (or of
\* image_records), and the <img> references that resolved to no archive
\* entry (EPUB only)
Books(cls) ==
    [images : SeqsUpTo(Payloads, MaxBookImages),
     unresolved : IF cls = "epub" THEN {{}, {<<"ref", 0>>}} ELSE {{}}]

\* the extractors of the pipeline that run without a pool
OneBookExtractors == {e \in EpubExtractors \cup MobiExtractors : e.parallelism = 1}

RECURSIVE image_loop(_, _, _, _, _, _, _, _)
\* the image loop of extract_images from image k on: the dry-run loop only
\* counts; the real loop saves, which adds the hash to the in-run set and
\* to the cache's in-memory set.  An exception of a pass is counted (dry
\* run) or noted in missing_images (real run) on the EPUB path and leaves
\* extract_images on the MOBI path.  At the end of the real EPUB loop
\* stats.missing = len(set(missing_images)).
image_loop(e, images, k, dry_run, stats, missing_images, in_cache, in_run) ==
    IF k > Len(images)
      THEN [raised |-> FALSE,
            stats |-> IF dry_run \/ e.cls # "epub" THEN stats
                      ELSE [stats EXCEPT !.missing = Cardinality(missing_images)]]
    ELSE LET data == images[k]
             h == hash_bytes_sha256(data)
             dec == should_skip_image(e, data, in_cache, e.ignored_hashes, in_run)
         IN  IF dec.raised
               THEN IF e.cls # "epub" THEN [raised |-> TRUE, stats |-> ExtractionStats]
                    ELSE IF dry_run
                      THEN image_loop(e, images, k + 1, dry_run, Bump(stats, "missing"),
                                      missing_images, in_cache, in_run)
                    ELSE image_loop(e, images, k + 1, dry_run, stats,
                                    missing_images \cup {<<"img", k>>}, in_cache, in_run)
             ELSE IF dec.should_skip
               THEN image_loop(e, images, k + 1, dry_run,
                               CountRejection(e, stats, dec.reason),
                               missing_images, in_cache, in_run)
             ELSE IF dry_run
               THEN image_loop(e, images, k + 1, dry_run, Bump(stats, "saved"),
                               missing_images, in_cache, in_run)
             ELSE image_loop(e, images, k + 1, dry_run, Bump(stats, "saved"),
                             missing_images,
                             IF e.has_cache THEN HashCache_add(in_cache, h) ELSE in_cache,
                             in_run \cup {h})

\* extract_images(file_path, output_dir, dry_run) on a readable book, from
\* the given cache and in-run sets
extract_images(e, a_book, dry_run, in_cache, in_run) ==
    image_loop(e, a_book.images, 1, dry_run, ExtractionStats, a_book.unresolved,
               in_cache, in_run)

DRY_AND_REAL == "extract_images twice"

InitDryRun == PipelineAtRest /\ sk = NoSkipCall /\ fn = NoCall

\* the same book from the same extractor state, once as a dry run and once
\* as a real run
CallExtractImagesBoth ==
    /\ fn.op = "none"
    /\ \E e \in OneBookExtractors :
       \E a_book \in Books(e.cls),
          in_cache \in (IF e.has_cache THEN {{}, {<<"sha256", "normal">>}} ELSE {{}}),
          in_run \in {{}, {<<"sha256", "tiny">>}} :
          fn' = [op |-> DRY_AND_REAL, ex |-> e, book |-> a_book, cache |-> in_cache,
                 extracted |-> in_run,
                 dry |-> extract_images(e, a_book, TRUE, in_cache, in_run),
                 real |-> extract_images(e, a_book, FALSE, in_cache, in_run)]
    /\ UNCHANGED <<pipeline_vars, sk>>

NextDryRun == CallExtractImagesBoth

SpecDryRun == InitDryRun /\ [][NextDryRun]_vars

\* ------------------------------------------------------------------- C29
\* C29: for the same book and the same initial extractor state the dry run
\* returns the same ExtractionStats as the real run, also for books that
\* hold one image several times or reference images absent from the archive.
C29_DryRunPredicts ==
    (fn.op = DRY_AND_REAL /\ ~fn.dry.raised /\ ~fn.real.raised) =>
        fn.dry.stats = fn.real.stats

\* =========================================================================
\* MobiImageExtractor(ignored_hashes, min_image_size, enable_deduplication,
\* logger) and the first should_skip_image call on it
\* =========================================================================
MobiIgnoreSets == {{}, {<<"sha256", "normal">>}, {<<"sha256", "tiny">>}}
MobiSizeFloors == {0, 500, DEFAULT_MIN_IMAGE_SIZE}
MobiInRunSets == SUBSET {<<"sha256", "normal">>, <<"sha256", "tiny">>}

MOBI_INIT == "MobiImageExtractor"

InitMobiInit == PipelineAtRest /\ sk = NoSkipCall /\ fn = NoCall

\* the constructor call, then should_skip_image(data) on the new extractor
\* with the thread's in-run set as given (no cache can be configured)
CallMobiInit ==
    /\ fn.op = "none"
    /\ \E ignored \in MobiIgnoreSets, min_image_size \in MobiSizeFloors,
          enable_deduplication \in BOOLEAN, data \in Payloads,
          in_run \in MobiInRunSets :
          LET e == MobiImageExtractor__init__(ignored, min_image_size,
                                              enable_deduplication)
          IN  fn' = [op |-> MOBI_INIT, ignored |-> ignored,
                     min_image_size |-> min_image_size,
                     enable_deduplication |-> enable_deduplication,
                     ex |-> e, data |-> data, extracted |-> in_run,
                     decision |-> should_skip_image(e, data, {}, e.ignored_hashes,
                                                    in_run)]
    /\ UNCHANGED <<pipeline_vars, sk>>

NextMobiInit == CallMobiInit

SpecMobiInit == InitMobiInit /\ [][NextMobiInit]_vars

\* ------------------------------------------------------------------- C30
\* C30: the extractor has the constructor's values as its ignore set, size
\* floor and deduplication switch, its width floor, height floor and
\* aspect-ratio ceiling are 0 and it has no cache; and should_skip_image
\* returns a decision for every image at or above the size floor.
C30_MobiConstructor ==
    fn.op = MOBI_INIT =>
        /\ fn.ex.ignored_hashes =
              (IF fn.ignored = {} THEN DEFAULT_IGNORED_HASHES ELSE fn.ignored)
        /\ fn.ex.min_image_size = fn.min_image_size
        /\ fn.ex.enable_deduplication = fn.enable_deduplication
        /\ fn.ex.min_width = 0
        /\ fn.ex.min_height_is_int /\ fn.ex.min_height = 0
        /\ fn.ex.max_aspect_ratio = 0
        /\ ~fn.ex.has_cache
        /\ len(fn.data) >= fn.min_image_size => ~fn.decision.raised

====
